---- MODULE Spec2Model ----
\* Redundant-check elimination of AddressSanitizer.cpp (ASAN--), modelled as a
\* state machine over one function's analysis run: the pending list
\* ToInstrument is threaded through the sub-passes of ASAN_Optimizations and
\* then handed to the emission loop of runOnFunction.
EXTENDS Integers, Sequences, FiniteSets, TLC

VARIABLES pc, F, ToInstrument, splits, log, rt

vars == <<pc, F, ToInstrument, splits, log, rt>>

\* ------------------------------------------------------------------ bounds
NumSites == 3
MaxSteps == 6
WordBits == 4

\* ------------------------------------------------------- program constants
RZ_SIZE == 16
CHECK_RANGE == 64
CHECK_RANGE_LOOP == 32
MAX_STEP_SIZE == 8

\* ---------------------------------------------------------------- helpers
Min(S) == CHOOSE x \in S : \A y \in S : x <= y
Max(S) == CHOOSE x \in S : \A y \in S : x >= y
Range(s) == {s[i] : i \in DOMAIN s}
IndexOf(s, x) == CHOOSE i \in DOMAIN s : s[i] = x
Abs(x) == IF x < 0 THEN -x ELSE x

RECURSIVE Perms(_)
Perms(S) == IF S = {} THEN {<<>>}
            ELSE UNION {{<<x>> \o p : p \in Perms(S \ {x})} : x \in S}

\* ------------------------------------------------------------ CFG model
Blocks == 1..5
Entry == 1

\* The control-flow graphs the functions are drawn from: successor map and
\* the loop forest LoopInfo reports for it (blocks of each loop, parent loop
\* index or 0).
CFGs == <<
  \* 1: straight line 1 -> 2 -> 3
  [succ |-> (1 :> {2} @@ 2 :> {3} @@ 3 :> {} @@ 4 :> {} @@ 5 :> {}),
   blocks |-> {1, 2, 3}, loops |-> <<>>],
  \* 2: diamond 1 -> {2,3} -> 4
  [succ |-> (1 :> {2, 3} @@ 2 :> {4} @@ 3 :> {4} @@ 4 :> {} @@ 5 :> {}),
   blocks |-> {1, 2, 3, 4}, loops |-> <<>>],
  \* 3: while loop, header 2, body 3, unique exit block 4
  [succ |-> (1 :> {2} @@ 2 :> {3, 4} @@ 3 :> {2} @@ 4 :> {} @@ 5 :> {}),
   blocks |-> {1, 2, 3, 4}, loops |-> <<[blocks |-> {2, 3}, parent |-> 0]>>],
  \* 4: loop {2,3} left from 2 to block 4 and from 3 to block 5: no unique exit
  [succ |-> (1 :> {2} @@ 2 :> {3, 4} @@ 3 :> {2, 5} @@ 4 :> {5} @@ 5 :> {}),
   blocks |-> {1, 2, 3, 4, 5}, loops |-> <<[blocks |-> {2, 3}, parent |-> 0]>>],
  \* 5: inner loop {3} (exit 4) nested in outer loop {2,3,4} (exit 5)
  [succ |-> (1 :> {2} @@ 2 :> {3} @@ 3 :> {3, 4} @@ 4 :> {2, 5} @@ 5 :> {}),
   blocks |-> {1, 2, 3, 4, 5},
   loops |-> <<[blocks |-> {2, 3, 4}, parent |-> 0], [blocks |-> {3}, parent |-> 1]>>],
  \* 6: nested ifs, 1 -> {2,4}, 2 -> {3,4}, 3 -> 4
  [succ |-> (1 :> {2, 4} @@ 2 :> {3, 4} @@ 3 :> {4} @@ 4 :> {} @@ 5 :> {}),
   blocks |-> {1, 2, 3, 4}, loops |-> <<>>],
  \* 7: inner loop {3} nested in outer loop {2,3,4} (exit 5); the exit block
  \* 4 of the inner loop is also entered from the outer header 2
  [succ |-> (1 :> {2} @@ 2 :> {3, 4} @@ 3 :> {3, 4} @@ 4 :> {2, 5} @@ 5 :> {}),
   blocks |-> {1, 2, 3, 4, 5},
   loops |-> <<[blocks |-> {2, 3, 4}, parent |-> 0], [blocks |-> {3}, parent |-> 1]>>]
>>

Succ(fn, b) == CFGs[fn.shape].succ[b]

\* Blocks reachable from the set `seen` without entering block `avoid`.
RECURSIVE ReachAvoiding(_, _, _)
ReachAvoiding(fn, seen, avoid) ==
  LET next == seen \cup ((UNION {Succ(fn, b) : b \in seen}) \ {avoid})
  IN IF next = seen THEN seen ELSE ReachAvoiding(fn, next, avoid)

ExitBlocksOfFunction(fn) == {b \in CFGs[fn.shape].blocks : Succ(fn, b) = {}}

\* DominatorTree::dominates(BasicBlock, BasicBlock): reflexive.
BlockDominates(fn, a, b) ==
  a = b \/ a = Entry \/ b \notin ReachAvoiding(fn, {Entry}, a)

\* PostDominatorTree::dominates(BasicBlock, BasicBlock): reflexive.
BlockPostDominates(fn, a, b) ==
  a = b \/ (ReachAvoiding(fn, {b}, a) \cap ExitBlocksOfFunction(fn) = {})

\* --------------------------------------------------------- access sites
\* The instructions collected by runOnFunction are numbered 1..fn.n in
\* program order (within one block the lower number executes first).
\* fn.ptr lists them in ascending pointer order, the order in which
\* std::set<Instruction *> iterates; address values are numbered in
\* ascending pointer order, the order of std::map<Value *, ...>.
Sites(fn) == 1..fn.n
Addrs == 1..(NumSites + 2)
PtrRank(fn, i) == IndexOf(fn.ptr, i)

\* isInterestingMemoryAccess: the address of a load/store/atomic/masked
\* access, null for a memory intrinsic kept in the list.
isInterestingMemoryAccess(fn, Inst) == ~fn.mem[Inst]

\* A variant of the alias test that ignores the oracle.
isMustAliasAlways(fn, a, b) == TRUE

\* AliasAnalysis::isMustAlias, the oracle's answer for two address values.
isMustAlias(fn, a, b) == a = b \/ {a, b} \in fn.must

\* CFG mutations made so far by SplitBlockAndInsertIfThen: m.at is the set
\* of sites before which a block was split (the site and what follows it in
\* the block moved to a new tail block), m.exit the set of blocks split at
\* their first non-PHI instruction.
NoSplit == [at |-> {}, exit |-> {}]

\* Inst->getParent() on the mutated CFG: the original block and the number
\* of splits that precede the site inside it.
Parent(fn, m, i) ==
  <<fn.blk[i],
    Cardinality({t \in m.at : fn.blk[t] = fn.blk[i] /\ t <= i})
      + (IF fn.blk[i] \in m.exit THEN 1 ELSE 0)>>

\* DominatorTree::dominates(Instruction, Instruction): program order inside
\* one block (splitting keeps it), block dominance otherwise.
InstDominates(fn, i1, i2) ==
  IF fn.blk[i1] = fn.blk[i2] THEN i1 < i2
  ELSE BlockDominates(fn, fn.blk[i1], fn.blk[i2])

\* PDT.dominates(inst1->getParent(), inst2->getParent()) on the mutated CFG:
\* of two parts of one original block only the later post-dominates.
ParentPostDominates(fn, m, i1, i2) ==
  IF fn.blk[i1] = fn.blk[i2]
  THEN Parent(fn, m, i1)[2] >= Parent(fn, m, i2)[2]
  ELSE BlockPostDominates(fn, fn.blk[i1], fn.blk[i2])

\* The grouping loop of both sequential passes: AddrToInstructions, as a
\* function from address values to sets of sites (empty: no slot).
RECURSIVE AddrToInstructions(_, _, _)
AddrToInstructions(fn, list, map) ==
  IF list = <<>> THEN map
  ELSE LET Inst == Head(list)
           Addr == fn.addr[Inst]
           aliases == {k \in Addrs : map[k] # {} /\ isMustAlias(fn, k, Addr)}
       IN IF ~isInterestingMemoryAccess(fn, Inst)
          THEN AddrToInstructions(fn, Tail(list), map)
          ELSE IF map[Addr] = {} /\ aliases # {}
          THEN AddrToInstructions(fn, Tail(list),
                 [map EXCEPT ![Min(aliases)] = @ \cup {Inst}])
          ELSE AddrToInstructions(fn, Tail(list),
                 [map EXCEPT ![Addr] = @ \cup {Inst}])

EmptyMap == [k \in Addrs |-> {}]

\* A std::set<Instruction *> in iteration order.
InPtrOrder(fn, S) == SelectSeq(fn.ptr, LAMBDA i : i \in S)

Deleted(j) == {p[2] : p \in j}

\* A variant of the test in which the dominance pass accepts dominance in
\* either direction.
SeqCoversEitherWay(fn, mode, inst1, inst2) ==
  IF mode = "postdom"
  THEN ParentPostDominates(fn, NoSplit, inst1, inst2)
  ELSE InstDominates(fn, inst1, inst2) \/ InstDominates(fn, inst2, inst1)

\* The test under which inst1 makes inst2 redundant.
SeqCovers(fn, mode, inst1, inst2) ==
  IF mode = "postdom"
  THEN ParentPostDominates(fn, NoSplit, inst1, inst2)
  ELSE InstDominates(fn, inst1, inst2)

\* The three nested loops over AddrToInstructions; j is the set of pairs
\* <<inst1, inst2>> for which deleted.insert(inst2) ran.
RECURSIVE SeqInner(_, _, _, _, _)
SeqInner(fn, mode, inst1, todo, j) ==
  IF todo = <<>> THEN j
  ELSE LET inst2 == Head(todo)
       IN IF inst1 = inst2 \/ inst2 \in Deleted(j)
          THEN SeqInner(fn, mode, inst1, Tail(todo), j)
          ELSE IF SeqCovers(fn, mode, inst1, inst2)
          THEN SeqInner(fn, mode, inst1, Tail(todo), j \cup {<<inst1, inst2>>})
          ELSE SeqInner(fn, mode, inst1, Tail(todo), j)

RECURSIVE SeqOuter(_, _, _, _, _)
SeqOuter(fn, mode, todo, group, j) ==
  IF todo = <<>> THEN j
  ELSE LET inst1 == Head(todo)
       IN IF inst1 \in Deleted(j)
          THEN SeqOuter(fn, mode, Tail(todo), group, j)
          ELSE SeqOuter(fn, mode, Tail(todo), group,
                        SeqInner(fn, mode, inst1, group, j))

RECURSIVE SeqGroups(_, _, _, _, _)
SeqGroups(fn, mode, k, map, j) ==
  IF k > Max(Addrs) THEN j
  ELSE LET group == InPtrOrder(fn, map[k])
       IN SeqGroups(fn, mode, k + 1, map, SeqOuter(fn, mode, group, group, j))

\* "Let's only keep the non-deleted ones".
\* A variant of the rebuilding loop that pushes the kept entries to the front.
KeepNonDeletedPushFront(list, del) ==
  LET kept == SelectSeq(list, LAMBDA i : i \notin del)
  IN [k \in DOMAIN kept |-> kept[Len(kept) + 1 - k]]

KeepNonDeleted(list, del) == SelectSeq(list, LAMBDA i : i \notin del)

sequentialExecuteOptimizationPostDomJ(fn, list) ==
  SeqGroups(fn, "postdom", 1, AddrToInstructions(fn, list, EmptyMap), {})

sequentialExecuteOptimizationJ(fn, list) ==
  SeqGroups(fn, "dom", 1, AddrToInstructions(fn, list, EmptyMap), {})

\* ------------------------------------------------- neighbor-check passes
\* fn.gep[i]: the address of site i after stripping casts: isGep, base
\* pointer, lead (the indices before the last) and last (the last index);
\* an index is a ConstantInt with a value or some other value.
ConstantInt(n) == [const |-> TRUE, val |-> n]
NonConstant == [const |-> FALSE, val |-> 0]
IsConst(x) == x.const

\* std::string::push_back(int64_t): the index narrowed to one char.
ToChar(x) == x % 256

\* singleIndexCaseHandler / multiIndexCaseHandler: does the site get an
\* entry in baseAddrOffsetMap_multi, and under which key.
HasEntry(fn, i) ==
  /\ isInterestingMemoryAccess(fn, i)
  /\ fn.gep[i].isGep
  /\ \A k \in DOMAIN fn.gep[i].lead : IsConst(fn.gep[i].lead[k])
  /\ IsConst(fn.gep[i].last)

BaseKey(fn, i) ==
  <<fn.gep[i].base, [k \in DOMAIN fn.gep[i].lead |-> ToChar(fn.gep[i].lead[k].val)]>>

Offset(fn, i) == fn.gep[i].last.val

\* operator< of std::string (bytes compared as unsigned).
RECURSIVE StringLess(_, _)
StringLess(a, b) ==
  IF b = <<>> THEN FALSE
  ELSE IF a = <<>> THEN TRUE
  ELSE IF Head(a) # Head(b) THEN Head(a) < Head(b)
  ELSE StringLess(Tail(a), Tail(b))

KeyLess(k1, k2) == k1[1] < k2[1] \/ (k1[1] = k2[1] /\ StringLess(k1[2], k2[2]))

\* operator< of std::pair<int64_t, Instruction *>.
EntryLess(fn, a, b) ==
  Offset(fn, a) < Offset(fn, b)
    \/ (Offset(fn, a) = Offset(fn, b) /\ PtrRank(fn, a) < PtrRank(fn, b))

\* A std::set<std::pair<int64_t, Instruction *>> in iteration order.
RECURSIVE InEntryOrder(_, _)
InEntryOrder(fn, S) ==
  IF S = {} THEN <<>>
  ELSE LET x == CHOOSE a \in S : \A b \in S \ {a} : EntryLess(fn, a, b)
       IN <<x>> \o InEntryOrder(fn, S \ {x})

\* baseAddrOffsetMapPreprocessing: the keys of the map in iteration order
\* and the sites filed under a key.
KeysOf(fn, list) == {BaseKey(fn, i) : i \in {x \in Range(list) : HasEntry(fn, x)}}

RECURSIVE InKeyOrder(_)
InKeyOrder(K) ==
  IF K = {} THEN <<>>
  ELSE LET k == CHOOSE a \in K : \A b \in K \ {a} : KeyLess(a, b)
       IN <<k>> \o InKeyOrder(K \ {k})

GroupOf(fn, list, key) ==
  {i \in Range(list) : HasEntry(fn, i) /\ BaseKey(fn, i) = key}

\* A variant of the witness test that accepts a distance of RZ_SIZE.
WitnessPairsUpToRedzone(fn, m, group, B) ==
  {p \in group \X group :
     /\ p[1] # B /\ p[2] # B /\ p[1] # p[2]
     /\ (InstDominates(fn, p[1], B) \/ ParentPostDominates(fn, m, p[1], B))
     /\ Offset(fn, p[2]) > Offset(fn, B)
     /\ Offset(fn, B) > Offset(fn, p[1])
     /\ Offset(fn, p[2]) - Offset(fn, p[1]) <= RZ_SIZE}

\* preprocessPotentialRemoveInsts: candidate B -> set of witness pairs <<A, C>>.
WitnessPairs(fn, m, group, B) ==
  {p \in group \X group :
     /\ p[1] # B /\ p[2] # B /\ p[1] # p[2]
     /\ (InstDominates(fn, p[1], B) \/ ParentPostDominates(fn, m, p[1], B))
     /\ Offset(fn, p[2]) > Offset(fn, B)
     /\ Offset(fn, B) > Offset(fn, p[1])
     /\ Offset(fn, p[2]) - Offset(fn, p[1]) < RZ_SIZE}

preprocessPotentialRemoveInsts(fn, m, group) ==
  [B \in {x \in group : WitnessPairs(fn, m, group, x) # {}} |->
     WitnessPairs(fn, m, group, B)]

\* rankRemovableInsts: countInst of one candidate.
RankOf(pot, X) ==
  LET hits(V) == {p \in pot[V] : V = p[1] \/ V = p[2]}
      others == DOMAIN pot \ {X}
      RECURSIVE Sum(_)
      Sum(S) == IF S = {} THEN 0
                ELSE LET v == CHOOSE v \in S : TRUE
                     IN Cardinality(hits(v)) + Sum(S \ {v})
  IN Sum(others)

\* rankPotentialRemoveInsts after sort(): ascending (count, pointer).
RECURSIVE InRankOrder(_, _, _)
InRankOrder(fn, pot, S) ==
  IF S = {} THEN <<>>
  ELSE LET x == CHOOSE a \in S : \A b \in S \ {a} :
                  \/ RankOf(pot, a) < RankOf(pot, b)
                  \/ (RankOf(pot, a) = RankOf(pot, b)
                      /\ PtrRank(fn, a) < PtrRank(fn, b))
       IN <<x>> \o InRankOrder(fn, pot, S \ {x})

\* The loop of removeInstructionFunc over the ranked list; st.deleted is the
\* deleted set, st.pot the map being edited, st.why the witness pairs each
\* removed candidate had when it was removed.
RECURSIVE RemoveLoop(_, _)
RemoveLoop(todo, st) ==
  IF todo = <<>> THEN st
  ELSE LET X == Head(todo)
           removeInst ==
             \A elem \in st.deleted :
               \E p \in st.pot[X] : p[1] # elem /\ p[2] # elem
       IN IF ~removeInst THEN RemoveLoop(Tail(todo), st)
          ELSE RemoveLoop(Tail(todo),
                 [deleted |-> st.deleted \cup {X},
                  pot |-> [V \in DOMAIN st.pot |->
                             {p \in st.pot[V] : p[1] # X /\ p[2] # X}],
                  why |-> st.why \cup {<<X, st.pot[X]>>}])

\* A variant of removeInstructionFunc that stops after the first candidate.
removeInstructionFuncFirstOnly(fn, pot, deleted, why) ==
  RemoveLoop(SelectSeq(InRankOrder(fn, pot, DOMAIN pot),
                       LAMBDA X : \A Y \in DOMAIN pot : PtrRank(fn, X) <= PtrRank(fn, Y)),
             [deleted |-> deleted, pot |-> pot, why |-> why])

removeInstructionFunc(fn, pot, deleted, why) ==
  RemoveLoop(InRankOrder(fn, pot, DOMAIN pot),
             [deleted |-> deleted, pot |-> pot, why |-> why])

\* rmNeighborChks: every group of at least three entries, in key order.
RECURSIVE rmNeighborChks(_, _, _, _, _)
rmNeighborChks(fn, m, list, keys, st) ==
  IF keys = <<>> THEN st
  ELSE LET group == GroupOf(fn, list, Head(keys))
       IN IF Cardinality(group) >= 3
          THEN LET r == removeInstructionFunc(fn,
                          preprocessPotentialRemoveInsts(fn, m, group),
                          st.deleted, st.why)
               IN rmNeighborChks(fn, m, list, Tail(keys),
                                 [deleted |-> r.deleted, why |-> r.why])
          ELSE rmNeighborChks(fn, m, list, Tail(keys), st)

\* checkConditionPairwisedNodes.
checkConditionPairwisedNodes(fn, m, A, B) ==
  /\ InstDominates(fn, A, B)
  /\ (Parent(fn, m, A) = Parent(fn, m, B) \/ ParentPostDominates(fn, m, B, A))

\* The condition of preprocessInstructionsMap on a pair of entries.
MergeCond(fn, m, A, B) ==
  /\ Offset(fn, A) - Offset(fn, B) < CHECK_RANGE
  /\ Offset(fn, B) - Offset(fn, A) < CHECK_RANGE
  /\ (checkConditionPairwisedNodes(fn, m, A, B)
      \/ checkConditionPairwisedNodes(fn, m, B, A))

\* The inner loop of preprocessInstructionsMap for one A: the entries B are
\* pushed in set order until the first B that fails the condition (break).
RECURSIVE MergeVector(_, _, _, _)
MergeVector(fn, m, A, todo) ==
  IF todo = <<>> THEN <<>>
  ELSE IF Head(todo) = A THEN MergeVector(fn, m, A, Tail(todo))
  ELSE IF MergeCond(fn, m, A, Head(todo))
  THEN <<Head(todo)>> \o MergeVector(fn, m, A, Tail(todo))
  ELSE <<>>

preprocessInstructionsMap(fn, m, group) ==
  LET order == InEntryOrder(fn, group)
  IN [A \in {x \in group : MergeVector(fn, m, x, order) # <<>>} |->
        MergeVector(fn, m, A, order)]

\* prioritiseRemovableInst: sort() then reverse(): descending (vector size,
\* offset, pointer) of the key entry.
RECURSIVE prioritiseRemovableInst(_, _, _)
prioritiseRemovableInst(fn, imap, S) ==
  IF S = {} THEN <<>>
  ELSE LET x == CHOOSE a \in S : \A b \in S \ {a} :
                  \/ Len(imap[a]) > Len(imap[b])
                  \/ (Len(imap[a]) = Len(imap[b]) /\ EntryLess(fn, b, a))
       IN <<x>> \o prioritiseRemovableInst(fn, imap, S \ {x})

\* getLastInst.
RECURSIVE LastInstLoop(_, _, _)
LastInstLoop(fn, todo, lastInst) ==
  IF todo = <<>> THEN lastInst
  ELSE IF InstDominates(fn, Head(todo), lastInst)
  THEN LastInstLoop(fn, Tail(todo), lastInst)
  ELSE LastInstLoop(fn, Tail(todo), Head(todo))

\* A variant of getLastInst that answers the key entry.
getLastInstIsKey(fn, key, vec) == key

getLastInst(fn, key, vec) == LastInstLoop(fn, vec, key)

\* getMaxDistance: maxOffset starts at 0.
getMaxDistance(fn, vec) == Max({0} \cup {Offset(fn, vec[k]) : k \in DOMAIN vec})

\* getMinDistance: the first entry of the vector with the least offset.
RECURSIVE MinLoop(_, _, _)
MinLoop(fn, todo, minOffset) ==
  IF todo = <<>> THEN minOffset
  ELSE IF Offset(fn, Head(todo)) < Offset(fn, minOffset)
  THEN MinLoop(fn, Tail(todo), Head(todo))
  ELSE MinLoop(fn, Tail(todo), minOffset)

getMinDistance(fn, vec) == MinLoop(fn, vec, Head(vec))

\* The width in bits of the shadow load of the range probe.
ShadowTy(maxDistance) ==
  IF 8 <= maxDistance /\ maxDistance < 16 THEN 16
  ELSE IF 16 <= maxDistance /\ maxDistance < 32 THEN 32
  ELSE IF 32 <= maxDistance /\ maxDistance < 64 THEN 64
  ELSE 8

\* One merged guard: the range probe is inserted before site `at` and reads
\* the shadow of the address of site `probe`; `checks` are the sites whose
\* address gets a regular check behind the probe.
MergedGuard(fn, key, vec) ==
  LET minInst == getMinDistance(fn, vec)
  IN [kind |-> "range", key |-> key, vec |-> vec,
      at |-> getLastInst(fn, key, vec),
      probe |-> minInst,
      maxDistance |-> getMaxDistance(fn, vec) - Offset(fn, minInst),
      width |-> ShadowTy(getMaxDistance(fn, vec) - Offset(fn, minInst)),
      checks |-> {minInst} \cup Range(vec)]

\* optimizeInstrumentation: the loop over the ranked list, which erases the
\* entries whose key is in the vector of the entry just processed.
RECURSIVE optimizeInstrumentation(_, _, _, _, _)
optimizeInstrumentation(fn, imap, list, idx, st) ==
  IF idx > Len(list) THEN st
  ELSE LET key == list[idx]
           vec == imap[key]
           g == MergedGuard(fn, key, vec)
           rest == SelectSeq(list, LAMBDA x : x \notin Range(vec))
       IN optimizeInstrumentation(fn, imap, rest, IndexOf(rest, key) + 1,
            [deleted |-> st.deleted \cup {key} \cup Range(vec),
             m |-> [st.m EXCEPT !.at = @ \cup {g.at}],
             merged |-> Append(st.merged, g)])

\* mrgNeighborChks: every group that still has at least two entries.
RECURSIVE mrgNeighborChks(_, _, _, _, _)
mrgNeighborChks(fn, list, keys, removed, st) ==
  IF keys = <<>> THEN st
  ELSE LET group == GroupOf(fn, list, Head(keys)) \ removed
       IN IF Cardinality(group) >= 2
          THEN LET imap == preprocessInstructionsMap(fn, st.m, group)
               IN mrgNeighborChks(fn, list, Tail(keys), removed,
                    optimizeInstrumentation(fn, imap,
                      prioritiseRemovableInst(fn, imap, DOMAIN imap), 1, st))
          ELSE mrgNeighborChks(fn, list, Tail(keys), removed, st)

\* sequentialExecuteOptimizationBoost: remove-neighbor, then
\* updateBaseAddrOffsetMap, then merge-neighbor. The result holds the final
\* deleted set, the witness pairs of the removed candidates, the merged
\* guards and the CFG mutations.
sequentialExecuteOptimizationBoost(fn, m, list) ==
  LET keys == InKeyOrder(KeysOf(fn, list))
      rm == rmNeighborChks(fn, m, list, keys, [deleted |-> {}, why |-> {}])
      mrg == mrgNeighborChks(fn, list, keys, rm.deleted,
               [deleted |-> rm.deleted, m |-> m, merged |-> <<>>])
  IN [deleted |-> mrg.deleted, removed |-> rm.deleted, why |-> rm.why,
      merged |-> mrg.merged, m |-> mrg.m]

\* ------------------------------------------------ safe-access elimination
\* ObjectSizeOffsetVisitor::compute gives fn.obj[i]: known (bothKnown), and
\* the size and offset as WordBits-wide bit patterns.
TwoToWord == 2 ^ WordBits
Words == 0..(TwoToWord - 1)
\* APInt::getSExtValue of a bit pattern.
SExt(w) == IF w >= TwoToWord \div 2 THEN w - TwoToWord ELSE w

\* A variant of isSafeAccess that leaves out the test Offset >= 0.
isSafeAccessNoSignTest(fn, i) ==
  /\ fn.obj[i].known
  /\ fn.obj[i].size >= fn.obj[i].offset
  /\ (fn.obj[i].size - fn.obj[i].offset) % TwoToWord >= fn.bits[i] \div 8

\* isSafeAccess: Offset >= 0 && Size >= uint64_t(Offset) &&
\* Size - uint64_t(Offset) >= TypeSize / 8, in unsigned arithmetic.
isSafeAccess(fn, i) ==
  /\ fn.obj[i].known
  /\ SExt(fn.obj[i].offset) >= 0
  /\ fn.obj[i].size >= fn.obj[i].offset
  /\ (fn.obj[i].size - fn.obj[i].offset) % TwoToWord >= fn.bits[i] \div 8

\* isSafeAccessBoost: fn.cmps[i] lists the comparison instructions that use
\* an index of the address of site i, in the order the loops visit them;
\* the first one that dominates the access and compares the index with a
\* constant decides. A comparison has: dominates (DT.dominates(i_cmp,
\* IndexInst)), constOther (the other operand is ConstantData), K (its
\* value, a bit pattern), pred and branch (the predicate and the outcome
\* under which the access is reached, neither of which the function reads).
RECURSIVE BoostLoop(_, _, _)
BoostLoop(fn, i, todo) ==
  IF todo = <<>> THEN FALSE
  ELSE LET c == Head(todo)
       IN IF c.dominates /\ c.constOther /\ fn.gep[i].array
          THEN fn.gep[i].numElements >= c.K
          ELSE BoostLoop(fn, i, Tail(todo))

isSafeAccessBoost(fn, i) == fn.gep[i].isGep /\ BoostLoop(fn, i, fn.cmps[i])

\* The test that opens instrumentMop and instrumentMopLoop: the guard is
\* dropped for a global or an alloca that passes one of the two checks.
DroppedAsSafe(fn, i) ==
  /\ fn.obj[i].kind \in {"global", "alloca"}
  /\ (isSafeAccess(fn, i) \/ isSafeAccessBoost(fn, i))

\* ------------------------------------------------------ loop optimization
\* LoopInfo is the analysis computed before the run: it knows the original
\* blocks only. Loops are numbered as in CFGs[..].loops, 0 is "no loop".
Loops(fn) == CFGs[fn.shape].loops

\* LI.getLoopFor(Inst->getParent()): the innermost loop of the block, none
\* for a block that a split created after LoopInfo was computed.
getLoopFor(fn, m, i) ==
  LET in == {l \in DOMAIN Loops(fn) : fn.blk[i] \in Loops(fn)[l].blocks}
  IN IF Parent(fn, m, i)[2] > 0 \/ in = {} THEN 0
     ELSE CHOOSE l \in in : \A k \in in : Loops(fn)[k].blocks \subseteq Loops(fn)[l].blocks => k = l

\* Was the original block b split (its successors are then the two new
\* blocks of SplitBlockAndInsertIfThen, which no loop contains).
IsSplit(fn, m, b) == b \in m.exit \/ \E t \in m.at : fn.blk[t] = b

\* Loop::getExitBlock: the exit block if getExitBlocks has one element.
\* The result is <<number of exit edges, the exit blocks>>.
ExitEdges(fn, m, l) ==
  LET L == Loops(fn)[l].blocks
      RECURSIVE Count(_)
      Count(S) ==
        IF S = {} THEN 0
        ELSE LET b == CHOOSE b \in S : TRUE
             IN (IF IsSplit(fn, m, b) THEN 2
                 ELSE Cardinality(Succ(fn, b) \ L)) + Count(S \ {b})
  IN Count(L)

\* A variant of getExitBlock that settles for any exit block.
getExitBlockAny(fn, m, l) ==
  LET L == Loops(fn)[l].blocks
  IN IF ExitEdges(fn, m, l) >= 1
     THEN CHOOSE x \in Blocks : \E b \in L : x \in Succ(fn, b) \ L
     ELSE 0

getExitBlock(fn, m, l) ==
  LET L == Loops(fn)[l].blocks
  IN IF ExitEdges(fn, m, l) = 1
     THEN CHOOSE x \in Blocks : \E b \in L : x \in Succ(fn, b) \ L
     ELSE 0

\* DT.dominates(Inst, ExitBB).
DominatesBlock(fn, i, bb) == fn.blk[i] # bb /\ BlockDominates(fn, fn.blk[i], bb)

\* checkAddrType (SlimasanProject.h): the class of the address of a site.
checkAddrType(fn, i) == fn.addrType[i]

\* loopOptimizationCategorise.
loopOptimizationCategorise(fn, i) ==
  IF isInterestingMemoryAccess(fn, i) THEN checkAddrType(fn, i) ELSE "UNKNOWN"

\* SCEVTypeCalculation.
SCEVTypeCalculation(types) ==
  IF \E k \in DOMAIN types : types[k] = "SEUnknown" THEN "SEUnknown"
  ELSE LET mono == {k \in DOMAIN types : types[k] \in {"SEIncrease", "SEDecrease"}}
       IN IF mono = {} THEN "SEUnknown" ELSE types[Min(mono)]

\* getInitValueFromSCEV: the class of the expression and the state of the
\* output parameter stepSize (set: was it assigned, val: the value).
RECURSIVE getInitValueFromSCEV(_, _)
RECURSIVE SCEVOperands(_, _, _)
SCEVOperands(ops, step, types) ==
  IF ops = <<>> THEN [types |-> types, step |-> step]
  ELSE LET r == getInitValueFromSCEV(Head(ops), step)
       IN SCEVOperands(Tail(ops), r.step, Append(types, r.type))

getInitValueFromSCEV(Expr, step) ==
  CASE Expr.k = "Constant" -> [type |-> "SEConstant", step |-> step]
    [] Expr.k = "AddRec" ->
         LET init == getInitValueFromSCEV(Expr.start, step)
         IN IF init.type = "SEUnknown" THEN [type |-> "SEUnknown", step |-> init.step]
            ELSE IF ~Expr.step.const THEN [type |-> "SEUnknown", step |-> init.step]
            ELSE [type |-> IF Expr.step.val < 0 THEN "SEDecrease"
                           ELSE IF Expr.step.val > 0 THEN "SEIncrease"
                           ELSE "SEUnknown",
                  step |-> [set |-> TRUE, val |-> Expr.step.val]]
    [] Expr.k = "Unknown" ->
         [type |-> IF Expr.ibio THEN "SELoopInvariant" ELSE "SEUnknown", step |-> step]
    [] Expr.k \in {"Add", "Mul"} ->
         LET r == SCEVOperands(Expr.ops, step, <<>>)
         IN [type |-> SCEVTypeCalculation(r.types), step |-> r.step]
    [] Expr.k \in {"UDiv", "SMax", "UMax"} ->
         \* getLHS and getRHS, getOperand(0) and getOperand(1)
         LET r == SCEVOperands(SubSeq(Expr.ops, 1, 2), step, <<>>)
         IN [type |-> SCEVTypeCalculation(r.types), step |-> r.step]
    [] Expr.k \in {"Truncate", "ZeroExtend", "SignExtend"} ->
         getInitValueFromSCEV(Expr.ops[1], step)
    [] OTHER -> [type |-> "SEUnknown", step |-> step]

Unset == [set |-> FALSE, val |-> 0]

\* The guard a handler emits: kind, the site it stands for, and where.
LoopGuard(kind, i, l, exit, extra) ==
  [kind |-> kind, site |-> i, loop |-> l, exit |-> exit, extra |-> extra]

\* InvariantOptimizeHandler for site i of loop l; st holds the optimized
\* set, the guards emitted and the CFG mutations.
InvariantOptimizeHandler(fn, l, i, st) ==
  LET ExitBB == getExitBlock(fn, st.m, l)
  IN IF ~isInterestingMemoryAccess(fn, i) THEN st
     ELSE IF ExitBB = 0 THEN st
     ELSE IF DominatesBlock(fn, i, ExitBB)
     THEN \* instrumentMopLoop, then optimized.insert(Inst)
          IF DroppedAsSafe(fn, i)
          THEN [st EXCEPT !.optimized = @ \cup {i},
                          !.safe = @ \cup {i}]
          ELSE [st EXCEPT !.optimized = @ \cup {i},
                          !.guards = Append(@, LoopGuard("exit", i, l, ExitBB, 0)),
                          !.m.exit = @ \cup {ExitBB}]
     ELSE \* the Tracer variant; the store that resets the Tracer is added
          \* when the loop has a parent loop
          [st EXCEPT !.optimized = @ \cup {i},
                     !.guards = Append(@, LoopGuard("tracer", i, l, ExitBB,
                                   IF Loops(fn)[l].parent # 0 THEN 1 ELSE 0)),
                     !.m.exit = @ \cup {ExitBB}]

\* MonotonicOptimizeHandler; garbage is the value read from stepSize when
\* getInitValueFromSCEV never assigned it.
MonotonicOptimizeHandler(fn, l, i, garbage, st) ==
  LET ExitBB == getExitBlock(fn, st.m, l)
      r == getInitValueFromSCEV(fn.scev[i], Unset)
      stepSize == IF r.step.set THEN r.step.val ELSE garbage
  IN IF ExitBB = 0 THEN st
     ELSE IF ~isInterestingMemoryAccess(fn, i) THEN st
     ELSE IF r.type = "SEUnknown" THEN st
     ELSE IF stepSize > MAX_STEP_SIZE THEN st
     ELSE [st EXCEPT
             !.optimized = @ \cup {i},
             !.guards = Append(@, LoopGuard("probe", i, l, ExitBB,
                           [step |-> Abs(stepSize), type |-> r.type,
                            known |-> r.step.set,
                            exitCheck |-> DominatesBlock(fn, i, ExitBB)])),
             !.m.at = @ \cup {i},
             !.m.exit = IF DominatesBlock(fn, i, ExitBB) THEN @ \cup {ExitBB} ELSE @]

\* The loop of loopOptimization over ToInstrument; st.looked records, for
\* each site, the loop LI.getLoopFor answered.
RECURSIVE LoopOptLoop(_, _, _, _)
LoopOptLoop(fn, todo, garbage, st) ==
  IF todo = <<>> THEN st
  ELSE LET Inst == Head(todo)
           L == getLoopFor(fn, st.m, Inst)
           s1 == [st EXCEPT !.looked = @ \cup {<<Inst, L>>}]
       IN IF L = 0 THEN LoopOptLoop(fn, Tail(todo), garbage, s1)
          ELSE IF loopOptimizationCategorise(fn, Inst) = "IBIO"
          THEN LoopOptLoop(fn, Tail(todo), garbage,
                           InvariantOptimizeHandler(fn, L, Inst, s1))
          ELSE LoopOptLoop(fn, Tail(todo), garbage,
                           MonotonicOptimizeHandler(fn, L, Inst, garbage[Inst], s1))

loopOptimization(fn, m, list, garbage) ==
  LoopOptLoop(fn, list, garbage,
              [optimized |-> {}, safe |-> {}, guards |-> <<>>, m |-> m,
               looked |-> {}])

\* ---------------------------------------------------------------- state
\* pc: the step of runOnFunction that runs next. F: the function under
\* analysis. ToInstrument: the pending list. splits: the CFG mutations made so
\* far. log: what each step decided (the deleted/optimized sets, the pairs
\* and clusters that justified them, the guards emitted).
\* rt: the state of one execution of the instrumented function.

DefaultGep == [isGep |-> FALSE, base |-> 1, lead |-> <<>>, last |-> NonConstant,
               array |-> FALSE, numElements |-> 0, elemSize |-> 1]
DefaultObj == [kind |-> "other", known |-> FALSE, size |-> 0, offset |-> 0]
CouldNotCompute == [k |-> "CouldNotCompute"]

\* A function of n sites with nothing known about any address.
Plain(shape, n) ==
  [shape |-> shape, n |-> n,
   blk |-> [i \in 1..n |-> 1],
   addr |-> [i \in 1..n |-> i],
   bits |-> [i \in 1..n |-> 32],
   mem |-> [i \in 1..n |-> FALSE],
   ptr |-> [i \in 1..n |-> i],
   must |-> {},
   calls |-> 1..n,
   gep |-> [i \in 1..n |-> DefaultGep],
   obj |-> [i \in 1..n |-> DefaultObj],
   cmps |-> [i \in 1..n |-> <<>>],
   addrType |-> [i \in 1..n |-> "UNKNOWN"],
   scev |-> [i \in 1..n |-> CouldNotCompute]]

\* Block assignments that follow the layout order in which runOnFunction
\* collects the sites.
Layouts(shape, n) ==
  {b \in [1..n -> CFGs[shape].blocks] : \A i, j \in 1..n : i < j => b[i] <= b[j]}

\* runOnFunction collects an address value once per block unless a call
\* lies in between (ClOptSameTemp): fn.calls is the set of sites that a
\* call precedes inside their block.
CollectedOnce(fn) ==
  \A i, j \in 1..fn.n :
    (i < j /\ fn.blk[i] = fn.blk[j] /\ fn.addr[i] = fn.addr[j])
      => \E k \in fn.calls : i < k /\ k <= j

EmptyLog ==
  [postdom |-> {}, dom |-> {}, removed |-> {}, why |-> {}, merged |-> <<>>,
   mergedAway |-> {}, optimized |-> {}, loopSafe |-> {}, loopGuards |-> <<>>,
   full |-> {}, safe |-> {}, intrinsic |-> {}, looked |-> {}]

\* No execution of the instrumented function has started.
NoObs == [site |-> 0]
NoRun ==
  [st |-> "none", at |-> 0, valid |-> <<>>, would |-> {}, fired |-> {},
   ran |-> <<>>, tracer |-> <<>>, steps |-> 0, ptr |-> <<>>, start |-> <<>>,
   last |-> <<>>, since |-> {}, exitObs |-> NoObs, iterObs |-> NoObs]

InitOf(fns) ==
  /\ F \in fns
  /\ pc = "postdom"
  /\ ToInstrument = [i \in 1..F.n |-> i]
  /\ splits = NoSplit
  /\ log = EmptyLog
  /\ rt = NoRun

\* Functions for the sequential-domination passes: up to NumSites sites on
\* two address values that the oracle may or may not report as must-alias.
SeqFunctionsOf(shape, n) ==
  {fn \in {[Plain(shape, n) EXCEPT !.blk = b, !.addr = a, !.ptr = p, !.must = al] :
             b \in Layouts(shape, n), a \in [1..n -> 1..2],
             p \in Perms(1..n), al \in {{}, {{1, 2}}}} :
     CollectedOnce(fn)}

\* Two sites whose access sizes differ.
TypeSizes == {8, 32, 64}
SizeFunctions(sizes) ==
  {fn \in {[Plain(1, 2) EXCEPT !.blk = b, !.addr = a, !.ptr = p, !.must = al,
                               !.bits = t] :
             b \in Layouts(1, 2), a \in [1..2 -> 1..2], p \in Perms(1..2),
             al \in {{}, {{1, 2}}}, t \in [1..2 -> sizes]} :
     CollectedOnce(fn)}

SeqFunctions(n) ==
  SeqFunctionsOf(1, n) \cup SeqFunctionsOf(2, n) \cup SeqFunctionsOf(6, n)
    \cup SizeFunctions(TypeSizes)

\* Functions for the neighbor-check passes: n accesses through
\* single-index GEPs of one base with constant indices; two GEPs with the
\* same index are distinct values that the oracle may report as must-alias.
\* The pointer order of the instructions is the program order or its
\* reverse in the branching layouts, and any order inside one block.
OffsetVals == {0, 8, 12}
WideOffsetVals == {0, 8, 40, 70}
SingleIndexGep(off) == [DefaultGep EXCEPT !.isGep = TRUE, !.last = ConstantInt(off)]
EndOrders(n) == {[i \in 1..n |-> i], [i \in 1..n |-> n + 1 - i]}
OneBlock(n) == {[i \in 1..n |-> Entry]}
NbrFunctionsOf(shape, n, offsets, layouts, orders) ==
  UNION {
    LET same == {pr \in SUBSET (1..n) :
                   Cardinality(pr) = 2 /\ \A i, j \in pr : off[i] = off[j]}
    IN {[Plain(shape, n) EXCEPT !.blk = b, !.ptr = p, !.must = al,
                                !.gep = [i \in 1..n |-> SingleIndexGep(off[i])]] :
          b \in layouts, p \in orders, al \in {{}, same}}
    : off \in [1..n -> offsets]}

NbrFunctions(n) ==
  NbrFunctionsOf(1, n, OffsetVals, Layouts(1, n), EndOrders(n))
    \cup NbrFunctionsOf(2, n, OffsetVals, Layouts(2, n), EndOrders(n))
    \cup NbrFunctionsOf(1, n, OffsetVals, OneBlock(n), Perms(1..n))
    \cup NbrFunctionsOf(1, 2, WideOffsetVals, Layouts(1, 2), Perms(1..2))
    \cup NbrFunctionsOf(2, 2, WideOffsetVals, Layouts(2, 2), Perms(1..2))

\* Functions for safe-access elimination: one site whose object kind, size
\* and offset vary over all bit patterns, and one site indexed by a varying
\* index that a comparison instruction uses.
SafeFunctions(words) ==
  {[Plain(1, 1) EXCEPT !.bits = [i \in 1..1 |-> t],
                       !.obj = [i \in 1..1 |->
                                  [kind |-> kd, known |-> kn, size |-> sz, offset |-> of]]] :
     t \in TypeSizes, kd \in {"global", "alloca", "other"}, kn \in BOOLEAN,
     sz \in words, of \in words}

Preds == {"ult", "ule", "ugt", "eq"}
Cmps ==
  [dominates : BOOLEAN, constOther : BOOLEAN, K : {2, 4, TwoToWord - 1},
   pred : Preds, branch : BOOLEAN]
ArrayElements == 4
VaryingIndexGep(arr, elements) ==
  [DefaultGep EXCEPT !.isGep = TRUE, !.lead = <<ConstantInt(0)>>,
                     !.array = arr, !.numElements = elements]
BoostFunctions(elements) ==
  {[Plain(1, 1) EXCEPT !.gep = [i \in 1..1 |-> VaryingIndexGep(arr, elements)],
                       !.cmps = [i \in 1..1 |-> cs],
                       !.obj = [i \in 1..1 |-> [DefaultObj EXCEPT !.kind = kd]]] :
     arr \in BOOLEAN, kd \in {"global", "alloca", "other"},
     cs \in {<<>>} \cup {<<c>> : c \in Cmps}}

\* ------------------------------------------------------------- actions
PostDomPass ==
  /\ pc = "postdom"
  /\ LET j == sequentialExecuteOptimizationPostDomJ(F, ToInstrument)
     IN /\ ToInstrument' = KeepNonDeleted(ToInstrument, Deleted(j))
        /\ log' = [log EXCEPT !.postdom = j]
  /\ pc' = "dom"
  /\ UNCHANGED <<F, splits, rt>>

\* A variant of the dominance pass after which the loop pass runs.
DomPassThenLoop ==
  /\ pc = "dom"
  /\ LET j == sequentialExecuteOptimizationJ(F, ToInstrument)
     IN /\ ToInstrument' = KeepNonDeleted(ToInstrument, Deleted(j))
        /\ log' = [log EXCEPT !.dom = j]
  /\ pc' = "loop"
  /\ UNCHANGED <<F, splits, rt>>

DomPass ==
  /\ pc = "dom"
  /\ LET j == sequentialExecuteOptimizationJ(F, ToInstrument)
     IN /\ ToInstrument' = KeepNonDeleted(ToInstrument, Deleted(j))
        /\ log' = [log EXCEPT !.dom = j]
  /\ pc' = "boost"
  /\ UNCHANGED <<F, splits, rt>>

BoostPass ==
  /\ pc = "boost"
  /\ LET r == sequentialExecuteOptimizationBoost(F, splits, ToInstrument)
     IN /\ ToInstrument' = KeepNonDeleted(ToInstrument, r.deleted)
        /\ log' = [log EXCEPT !.removed = r.removed, !.why = r.why,
                              !.merged = r.merged,
                              !.mergedAway = r.deleted \ r.removed]
        /\ splits' = r.m
  /\ pc' = "loop"
  /\ UNCHANGED <<F, rt>>

\* Functions for the loop optimization: sites in the loop shapes whose
\* address is classified by checkAddrType and described by a SCEV.
Constant == [k |-> "Constant"]
Unknown(ibio) == [k |-> "Unknown", ibio |-> ibio]
AddRec(start, step) == [k |-> "AddRec", start |-> start, step |-> step]
NAry(kind, ops) == [k |-> kind, ops |-> ops]
StepVals == {-2 * MAX_STEP_SIZE, -1, 0, 1, MAX_STEP_SIZE, MAX_STEP_SIZE + 1}
ScevExprs ==
  {Constant, Unknown(TRUE), Unknown(FALSE), CouldNotCompute,
   AddRec(Unknown(TRUE), NonConstant), AddRec(Unknown(FALSE), ConstantInt(1)),
   NAry("Add", <<AddRec(Constant, ConstantInt(1)), Unknown(TRUE)>>),
   NAry("Add", <<Unknown(TRUE), Constant>>),
   NAry("Mul", <<AddRec(Constant, ConstantInt(1)), Unknown(FALSE)>>),
   NAry("ZeroExtend", <<AddRec(Constant, ConstantInt(-1))>>),
   NAry("UDiv", <<AddRec(Constant, ConstantInt(1)), Unknown(FALSE)>>),
   NAry("SMax", <<Constant, AddRec(Constant, ConstantInt(1))>>),
   NAry("UMax", <<Constant, AddRec(Constant, ConstantInt(1)), Unknown(FALSE)>>),
   NAry("SignExtend", <<AddRec(Unknown(FALSE), ConstantInt(1))>>)}
    \cup {AddRec(Unknown(TRUE), ConstantInt(v)) : v \in StepVals}
LoopShapes == {3, 4, 5}
SafeGlobal == [kind |-> "global", known |-> TRUE, size |-> 8, offset |-> 0]
LoopFunctions(shapes) ==
  UNION {
    {[Plain(shape, 1) EXCEPT !.blk = b, !.addrType = [i \in 1..1 |-> t],
                             !.scev = [i \in 1..1 |-> e],
                             !.obj = [i \in 1..1 |-> o]] :
       b \in Layouts(shape, 1), t \in {"IBIO", "UNKNOWN"}, e \in ScevExprs,
       o \in {DefaultObj, SafeGlobal}}
    \cup
    {[Plain(shape, 2) EXCEPT !.blk = b, !.addrType = t,
                             !.scev = [i \in 1..2 |-> AddRec(Unknown(TRUE), ConstantInt(1))]] :
       b \in Layouts(shape, 2), t \in [1..2 -> {"IBIO", "UNKNOWN"}]}
    : shape \in shapes}

\* Functions whose instrumented code is executed: two sites of one access
\* size in the straight-line and diamond shapes, and one site in the while
\* loop.
RunSizes == {8, 32}
RunSteps == {-2 * MAX_STEP_SIZE, -4, 1, 4, MAX_STEP_SIZE}
RunFunctions(sizes) ==
  {fn \in {[Plain(shape, 2) EXCEPT !.blk = b, !.addr = a, !.ptr = p, !.bits = t,
                                   !.calls = c] :
             shape \in {1, 2}, b \in [1..2 -> Blocks], a \in [1..2 -> 1..2],
             p \in Perms(1..2), t \in {[i \in 1..2 |-> z] : z \in sizes},
             c \in SUBSET (1..2)} :
     fn.blk \in Layouts(fn.shape, 2) /\ CollectedOnce(fn)}
    \cup
  {[Plain(3, 1) EXCEPT !.blk = b, !.addrType = [i \in 1..1 |-> ty], !.bits = t,
                       !.calls = c] :
     b \in Layouts(3, 1), ty \in {"IBIO", "UNKNOWN"}, t \in [1..1 -> sizes],
     c \in SUBSET (1..1)}
    \cup
  UNION {{[Plain(shape, 1) EXCEPT !.blk = b, !.addrType = [i \in 1..1 |-> "IBIO"],
                                  !.bits = t, !.calls = {}] :
            b \in Layouts(shape, 1), t \in [1..1 -> sizes]} : shape \in {3, 7}}
    \cup
  UNION {{[Plain(shape, 1) EXCEPT !.blk = b, !.bits = t, !.calls = {},
                                  !.scev = [i \in 1..1 |-> AddRec(Unknown(TRUE), ConstantInt(v))]] :
            b \in Layouts(shape, 1), t \in [1..1 -> sizes], v \in RunSteps} : shape \in {3, 5}}

GarbageSteps == {-(MAX_STEP_SIZE + 1), 1, MAX_STEP_SIZE + 1}

LoopPass ==
  /\ pc = "loop"
  /\ \E garbage \in [{i \in Range(ToInstrument) :
                        \E l \in DOMAIN Loops(F) : F.blk[i] \in Loops(F)[l].blocks}
                      -> GarbageSteps] :
       LET r == loopOptimization(F, splits, ToInstrument, garbage)
       IN /\ ToInstrument' = KeepNonDeleted(ToInstrument, r.optimized)
          /\ log' = [log EXCEPT !.optimized = r.optimized, !.loopSafe = r.safe,
                                !.loopGuards = r.guards, !.looked = r.looked]
          /\ splits' = r.m
  /\ pc' = "emit"
  /\ UNCHANGED <<F, rt>>

\* The instrumentation loop of runOnFunction: instrumentMop for an
\* interesting access, instrumentMemIntrinsic otherwise.
Instrument ==
  /\ pc = "emit"
  /\ LET pend == Range(ToInstrument)
         mops == {i \in pend : isInterestingMemoryAccess(F, i)}
     IN log' = [log EXCEPT !.safe = {i \in mops : DroppedAsSafe(F, i)},
                           !.full = {i \in mops : ~DroppedAsSafe(F, i)},
                           !.intrinsic = pend \ mops]
  /\ pc' = "emitted"
  /\ UNCHANGED <<F, ToInstrument, splits, rt>>

Next == PostDomPass \/ DomPass \/ BoostPass \/ LoopPass \/ Instrument

\* ------------------------------------------- running the emitted guards
\* An execution walks the CFG block by block. The memory state is, for each
\* address value, the number of bytes addressable from it; a call that
\* precedes a site (F.calls) may change it. The guard instrumentAddress
\* emits for a site reports when fewer bytes are addressable than the
\* access needs. would: the sites whose own guard, had every site kept it,
\* would have reported; fired: the sites whose emitted guard reported.
ValidBytes == {0, 1, 4}
Canon(fn, a) == Min({b \in Addrs : isMustAlias(fn, a, b)})
AddrValues(fn) == {Canon(fn, fn.addr[i]) : i \in Sites(fn)}
MemoryStates(fn) == [AddrValues(fn) -> ValidBytes]
ShadowCheckFails(fn, valid, i) == valid[Canon(fn, fn.addr[i])] < fn.bits[i] \div 8
SitesOfBlock(fn, b) == SelectSeq([i \in 1..fn.n |-> i], LAMBDA i : fn.blk[i] = b)
HasTracer(lg, i) ==
  \E k \in DOMAIN lg.loopGuards :
    lg.loopGuards[k].kind = "tracer" /\ lg.loopGuards[k].site = i

\* Addresses at run time are AddressBits wide; StartPtrs are the values an
\* address may have when the function is entered, 0 being the null pointer.
AddressBits == 6
StartPtrs == {0, 7, 31}
GuardsAt(lg, b) ==
  SelectSeq(lg.loopGuards, LAMBDA g : g.exit = b /\
              (g.kind \in {"exit", "tracer"} \/ (g.kind = "probe" /\ g.extra.exitCheck)))
ProbesOf(lg, i) ==
  {k \in DOMAIN lg.loopGuards : lg.loopGuards[k].kind = "probe" /\ lg.loopGuards[k].site = i}

\* A variant of the condition of the probe that compares with <=.
ProbeCmpInclusive(AddrLong, StepSizeLong) == (AddrLong % CHECK_RANGE_LOOP) <= StepSizeLong

\* The condition MonotonicOptimizeHandler inserts before the site:
\* icmp ult (urem AddrLong, CHECK_RANGE_LOOP), |stepSize|.
ProbeCmp(AddrLong, StepSizeLong) == (AddrLong % CHECK_RANGE_LOOP) < StepSizeLong

\* One guard with the shadow check of site i.
RunGuard(fn, r, i) ==
  [r EXCEPT !.ran[i] = @ + 1,
            !.fired = IF ShadowCheckFails(fn, r.valid, i) THEN @ \cup {i} ELSE @]

\* The guards the loop handlers placed before the first instruction of the
\* block: the relocated guard of instrumentMopLoop; the guard under
\* "Tracer != 0" on the loaded Tracer, followed by the store that resets the
\* Tracer; the guard under "InitValue != AddrLong" of the monotonic handler.
RECURSIVE RunLoopGuards(_, _, _)
RunLoopGuards(fn, gs, r) ==
  IF gs = <<>> THEN r
  ELSE LET g == Head(gs)
           i == g.site
           LITracer == r.tracer[i]
           taken == CASE g.kind = "exit" -> TRUE
                      [] g.kind = "tracer" -> LITracer # 0
                      [] OTHER -> r.last[i] # -1 /\ r.start[fn.addr[i]] # r.last[i]
           r1 == IF taken THEN RunGuard(fn, r, i) ELSE r
           r2 == IF g.kind = "tracer" /\ g.extra = 1
                 THEN [r1 EXCEPT !.tracer[i] = 0, !.since = @ \ {i}] ELSE r1
       IN RunLoopGuards(fn, Tail(gs),
            IF g.kind = "tracer"
            THEN [r2 EXCEPT !.exitObs =
                    [site |-> i, flag |-> LITracer # 0, executed |-> i \in r.since,
                     ran |-> taken, on |-> LITracer, last |-> r.last[i],
                     nested |-> Loops(fn)[g.loop].parent # 0,
                     after |-> r2.tracer[i]]]
            ELSE r2)

\* The address of site i advances by the constant step of its add
\* recurrence after every execution.
NextPtr(fn, i, p) ==
  IF fn.scev[i].k = "AddRec" /\ fn.scev[i].step.const
  THEN (p + fn.scev[i].step.val) % (2 ^ AddressBits) ELSE p

\* The sites of the block in program order: the call before the site, the
\* guard instrumentMop emitted for it or the probe of the monotonic handler
\* with its guard, the store to the Tracer, the access.
RECURSIVE RunSites(_, _, _, _, _)
RunSites(fn, lg, todo, ch, r) ==
  IF todo = <<>> THEN r
  ELSE LET i == Head(todo)
           valid == IF i \in DOMAIN ch THEN ch[i] ELSE r.valid
           fails == ShadowCheckFails(fn, valid, i)
           AddrLong == r.ptr[fn.addr[i]]
           probed == {k \in ProbesOf(lg, i) : ProbeCmp(AddrLong, lg.loopGuards[k].extra.step)}
           r0 == [r EXCEPT !.valid = valid]
           r1 == IF probed # {} THEN RunGuard(fn, r0, i) ELSE r0
       IN RunSites(fn, lg, Tail(todo), ch,
                   [r1 EXCEPT !.fired = IF i \in lg.full /\ fails THEN @ \cup {i} ELSE @,
                              !.tracer[i] = IF HasTracer(lg, i) THEN AddrLong ELSE @,
                              !.would = IF fails THEN @ \cup {i} ELSE @,
                              !.since = @ \cup {i},
                              !.last[i] = AddrLong,
                              !.ptr[fn.addr[i]] = NextPtr(fn, i, AddrLong),
                              !.iterObs =
                                IF ProbesOf(lg, i) = {} THEN @
                                ELSE [site |-> i, addr |-> AddrLong, prev |-> r.last[i],
                                      guard |-> probed # {},
                                      others |-> IF i \in lg.full THEN 1 ELSE 0]])

StartRun ==
  /\ pc = "emitted"
  /\ rt.st = "none"
  /\ log.merged = <<>>
  /\ \E v \in MemoryStates(F) :
     \E p \in {q \in [{F.addr[i] : i \in Sites(F)} -> StartPtrs] :
                 \A a, b \in DOMAIN q : isMustAlias(F, a, b) => q[a] = q[b]} :
       rt' = [st |-> "run", at |-> Entry, valid |-> v, would |-> {}, fired |-> {},
              ran |-> [i \in 1..F.n |-> 0], tracer |-> [i \in 1..F.n |-> 0],
              steps |-> 0, ptr |-> p, start |-> p, last |-> [i \in 1..F.n |-> -1],
              since |-> {}, exitObs |-> NoObs, iterObs |-> NoObs]
  /\ UNCHANGED <<pc, F, ToInstrument, splits, log>>

ExecStep ==
  /\ pc = "emitted"
  /\ rt.st = "run"
  /\ rt.steps < MaxSteps
  /\ \E ch \in [{i \in Sites(F) : F.blk[i] = rt.at /\ i \in F.calls} -> MemoryStates(F)] :
       LET r == RunSites(F, log, SitesOfBlock(F, rt.at), ch,
                         RunLoopGuards(F, GuardsAt(log, rt.at), rt))
       IN IF Succ(F, rt.at) = {}
          THEN rt' = [r EXCEPT !.st = "done", !.steps = @ + 1]
          ELSE \E nb \in Succ(F, rt.at) : rt' = [r EXCEPT !.at = nb, !.steps = @ + 1]
  /\ UNCHANGED <<pc, F, ToInstrument, splits, log>>

NextRun == Next \/ StartRun \/ ExecStep

SpecSeq ==
  InitOf(SeqFunctions(NumSites)) /\ [][Next]_vars

SpecNbr ==
  InitOf(NbrFunctions(NumSites)) /\ [][Next]_vars

SpecSafe ==
  InitOf(SafeFunctions(Words) \cup BoostFunctions(ArrayElements)) /\ [][Next]_vars

SpecLoop ==
  InitOf(LoopFunctions(LoopShapes)) /\ [][Next]_vars

\* Two accesses of one address value, each to an object of unknown kind
\* or inside a global.
SafePairFunctions ==
  {fn \in {[Plain(1, 2) EXCEPT !.blk = b, !.addr = [i \in 1..2 |-> 1], !.ptr = p,
                               !.obj = o] :
             b \in Layouts(1, 2), p \in Perms(1..2),
             o \in [1..2 -> {DefaultObj, SafeGlobal}]} :
     CollectedOnce(fn)}

SpecPipe ==
  InitOf(NbrFunctions(NumSites) \cup LoopFunctions(LoopShapes) \cup SafePairFunctions) /\ [][Next]_vars

\* One more access than in the neighbor functions through single-index
\* GEPs of one base, with indices up to a redzone apart, so that a group
\* holds several removable candidates.
RowOffsetVals == {0, 4, 12, 16}
RowLayouts(n) ==
  {[i \in 1..n |-> IF i <= k THEN ab[1] ELSE ab[2]] :
     k \in 1..(n - 1), ab \in {<<1, 2>>, <<1, 4>>, <<2, 4>>, <<2, 3>>}}
    \cup {[i \in 1..n |-> IF i = 1 THEN 1 ELSE IF i = n THEN 4 ELSE 2]}
RowFunctions(n) ==
  NbrFunctionsOf(1, n, RowOffsetVals, OneBlock(n), Perms(1..n))
    \cup NbrFunctionsOf(2, n, RowOffsetVals, RowLayouts(n), EndOrders(n))

SpecRow ==
  InitOf(RowFunctions(NumSites + 1)) /\ [][Next]_vars

\* Accesses through single-index GEPs of one base whose indices rise by 4
\* in program order, spread over the entry block, one branch and either
\* the other branch or the join block of the diamond, in every pointer
\* order.
LadderLayouts(n) ==
  {[i \in 1..n |-> IF i <= j THEN 1 ELSE IF i <= k THEN 2 ELSE last] :
     j \in 1..(n - 2), k \in 2..(n - 1), last \in {3, 4}}
LadderFunctions(n) ==
  {[Plain(2, n) EXCEPT !.blk = b, !.ptr = p,
                       !.gep = [i \in 1..n |-> SingleIndexGep(4 * (i - 1))]] :
     b \in LadderLayouts(n), p \in Perms(1..n)}

SpecLadder ==
  InitOf(LadderFunctions(NumSites + 2)) /\ [][Next]_vars

\* Accesses of one block through single-index GEPs of one base pointer
\* whose pointee type is elemSize bytes wide: the address of a site is the
\* base plus the index times elemSize.
ElemSizes == {1, 4, 8}
StrideIndexVals == {0, 1, 2, 5}
StrideFunctions(n) ==
  {[Plain(1, n) EXCEPT !.ptr = p,
                       !.gep = [i \in 1..n |->
                                  [SingleIndexGep(idx[i]) EXCEPT !.elemSize = sz]]] :
     p \in EndOrders(n), idx \in [1..n -> StrideIndexVals], sz \in ElemSizes}

SpecStride ==
  InitOf(StrideFunctions(NumSites)) /\ [][Next]_vars

SpecRun ==
  InitOf(RunFunctions(RunSizes)) /\ [][NextRun]_vars

\* Accesses of one block through GEPs of two base pointers with no, one or
\* two leading indices, constant or not, and a last index, constant or not.
LeadIndexLists ==
  {<<>>, <<ConstantInt(1)>>, <<ConstantInt(257)>>, <<ConstantInt(0), ConstantInt(1)>>,
   <<NonConstant>>}
KeyFunctions(n) ==
  {[Plain(1, n) EXCEPT !.gep = g] :
     g \in [1..n -> {[DefaultGep EXCEPT !.isGep = TRUE, !.base = b, !.lead = ld, !.last = la] :
                       b \in 1..2, ld \in LeadIndexLists,
                       la \in {ConstantInt(0), ConstantInt(4), NonConstant}}]}
SpecKey ==
  InitOf(KeyFunctions(NumSites - 1)) /\ [][Next]_vars

\* Functions in which at most one of the collected instructions is a memory
\* intrinsic (memset, memcpy, memmove), among sites that the sequential,
\* neighbor and loop passes act on.
WithMemIntrinsic(fns) ==
  UNION {{[fn EXCEPT !.mem = [i \in 1..fn.n |-> i = k]] : k \in 0..fn.n} : fn \in fns}
SpecFrame ==
  InitOf(WithMemIntrinsic(NbrFunctionsOf(2, NumSites, OffsetVals, Layouts(2, NumSites),
                                         EndOrders(NumSites))
                            \cup LoopFunctions({3}))) /\ [][Next]_vars

\* ------------------------------------- the conservative call/intrinsic check
\* Functions for ConservativeCallIntrinsicCheck: fn.kind gives, for each
\* instruction in program order, a memory access, a call instruction
\* (CallInst), an invoke (a call that ends its block) or a lifetime.end
\* marker (an IntrinsicInst, itself a CallInst).
CallFunctions(n) ==
  UNION {
    {fn \in {[shape |-> shape, n |-> n, blk |-> b, kind |-> k] :
               b \in Layouts(shape, n), k \in [1..n -> {"access", "call", "invoke", "lifetime_end"}]} :
       /\ Cardinality({i \in 1..n : fn.kind[i] = "access"}) >= 2
       /\ \A i, j \in 1..n :
            (fn.kind[i] = "invoke" /\ i < j) => fn.blk[i] # fn.blk[j]}
    : shape \in {1, 2, 3}}

\* ConservativeCallIntrinsicCollect: dyn_cast<CallInst>, then the test for
\* the lifetime_end intrinsic.
ConservativeCallIntrinsicCollect(fn) ==
  {i \in 1..fn.n : fn.kind[i] \in {"call", "lifetime_end"}}

\* isPotentiallyReachable(A, B, &DT): inside one block B is at or after A,
\* or the block is reached again from its successors; block reachability
\* otherwise.
isPotentiallyReachable(fn, A, B) ==
  IF fn.blk[A] = fn.blk[B]
  THEN \/ A <= B
       \/ (fn.blk[A] # Entry /\ fn.blk[A] \in ReachAvoiding(fn, Succ(fn, fn.blk[A]), 0))
  ELSE fn.blk[B] \in ReachAvoiding(fn, {fn.blk[A]}, 0)

\* isPostDominatWrapper: in one block, which of the two comes first;
\* block post-dominance otherwise.
isPostDominatWrapper(fn, InstStart, TargetInst) ==
  IF fn.blk[InstStart] = fn.blk[TargetInst]
  THEN TargetInst < InstStart
  ELSE BlockPostDominates(fn, fn.blk[InstStart], fn.blk[TargetInst])

ConservativeCallIntrinsicCheck(fn, InstStart, InstEnd, callIntrinsicSet) ==
  ~\E TargetInst \in callIntrinsicSet :
      /\ isPotentiallyReachable(fn, InstStart, TargetInst)
      /\ isPotentiallyReachable(fn, TargetInst, InstEnd)
      /\ ~isPostDominatWrapper(fn, InstStart, TargetInst)

InitCall ==
  /\ F \in CallFunctions(NumSites)
  /\ pc = "collect"
  /\ ToInstrument = SelectSeq([i \in 1..F.n |-> i], LAMBDA i : F.kind[i] = "access")
  /\ splits = NoSplit
  /\ log = [callIntrinsicSet |-> {}, InstStart |-> 0, InstEnd |-> 0, result |-> FALSE]
  /\ rt = NoRun

CollectCalls ==
  /\ pc = "collect"
  /\ log' = [log EXCEPT !.callIntrinsicSet = ConservativeCallIntrinsicCollect(F)]
  /\ pc' = "check"
  /\ UNCHANGED <<F, ToInstrument, splits, rt>>

CheckPair ==
  /\ pc = "check"
  /\ \E A, B \in Range(ToInstrument) :
       /\ A # B
       /\ log' = [log EXCEPT !.InstStart = A, !.InstEnd = B,
                             !.result = ConservativeCallIntrinsicCheck(F, A, B, log.callIntrinsicSet)]
  /\ pc' = "checked"
  /\ UNCHANGED <<F, ToInstrument, splits, rt>>

NextCall == CollectCalls \/ CheckPair
SpecCall == InitCall /\ [][NextCall]_vars

\* ================================================================ claims
AfterOptimizations == pc \in {"emit", "emitted"}
SeqRemoved == Deleted(log.postdom) \cup Deleted(log.dom)
Pending == Range(ToInstrument)

\* Blocks reachable from `seen` without entering any block of `avoid`.
RECURSIVE ReachAvoidingAll(_, _, _)
ReachAvoidingAll(fn, seen, avoid) ==
  LET next == seen \cup ((UNION {Succ(fn, b) : b \in seen}) \ avoid)
  IN IF next = seen THEN seen ELSE ReachAvoidingAll(fn, next, avoid)

\* Every path from the function entry to site B executes a site of C
\* before it first reaches B.
EveryPathPassesFirst(fn, C, B) ==
  LET same == {A \in C : fn.blk[A] = fn.blk[B]}
      other == {fn.blk[A] : A \in C \ same}
  IN \/ \E A \in same : A < B
     \/ Entry \in other
     \/ fn.blk[B] \notin ReachAvoidingAll(fn, {Entry} , other)

\* The sites of B's must-alias group whose guard was not removed.
PendingCovers(B) ==
  {A \in Pending \ {B} : isMustAlias(F, F.addr[A], F.addr[B])}

\* C2: after ASAN_Optimizations, every path from the entry to a site that
\* sequential-domination (post-dominance or dominance pass) removed passes,
\* before reaching it, through a still pending site of its must-alias group.
C2_PathCoveredBeforeRemoved ==
  AfterOptimizations =>
    \A B \in SeqRemoved : EveryPathPassesFirst(F, PendingCovers(B), B)

\* C4: whenever sequential-domination (either pass) removes B because of A,
\* the access size of A is at least the access size of B.
C4_CoverAtLeastAsWide ==
  \A p \in log.postdom \cup log.dom : F.bits[p[1]] >= F.bits[p[2]]

\* The oracle reports no other site of the function as must-aliasing i.
Unaliased(i) ==
  \A j \in Sites(F) \ {i} : F.addr[j] # F.addr[i] /\ {F.addr[i], F.addr[j]} \notin F.must

\* C3 (as claimed): a site that the oracle does not report as must-aliasing
\* any other site is untouched by every sub-pass and gets a full guard.
C3_UnaliasedGetsFullGuard ==
  pc = "emitted" => \A i \in Sites(F) : Unaliased(i) => i \in log.full

\* C3 (amended): a site that the oracle does not report as must-aliasing any
\* other site is never removed by sequential-domination (either pass): it is
\* still pending when the neighbor-check pass starts.
C3_UnaliasedSurvivesSequential ==
  \A i \in Sites(F) :
    Unaliased(i) =>
      /\ i \notin SeqRemoved
      /\ (pc \in {"postdom", "dom", "boost"} => i \in Pending)

\* C3 witness: sequential-domination has removed a site while an unaliased
\* site of the same function stayed pending.
C3_Witness ==
  /\ pc = "boost"
  /\ SeqRemoved # {}
  /\ \E i \in Sites(F) : Unaliased(i) /\ i \in Pending

\* C5: for every cluster merged by merge-neighbor, the merged guard checks
\* the address of every site it marks redundant (the key site included) and
\* its range probe spans the offsets of all of them.
C5_MergedGuardValidatesCluster ==
  \A k \in DOMAIN log.merged :
    LET g == log.merged[k]
        cluster == {g.key} \cup Range(g.vec)
    IN /\ cluster \subseteq g.checks
       /\ \A i \in cluster :
            /\ Offset(F, i) >= Offset(F, g.probe)
            /\ Offset(F, i) < Offset(F, g.probe) + g.width

\* The contract of 4.1 on the numbers themselves: size unsigned, offset signed.
InBoundsOfObject(i) ==
  /\ F.obj[i].known
  /\ SExt(F.obj[i].offset) >= 0
  /\ F.obj[i].size >= SExt(F.obj[i].offset)
  /\ F.obj[i].size - SExt(F.obj[i].offset) >= F.bits[i] \div 8

\* C7: isSafeAccess is true exactly when size and offset are both known and
\* offset >= 0, size >= offset, size - offset >= accessSizeInBits/8; at
\* emission a guard is dropped only for a global or stack-local object.
C7_IsSafeAccessContract ==
  /\ \A i \in Sites(F) : isSafeAccess(F, i) <=> InBoundsOfObject(i)
  /\ pc = "emitted" =>
       \A i \in Sites(F) :
         /\ i \in log.safe => F.obj[i].kind \in {"global", "alloca"}
         /\ (F.cmps[i] = <<>> /\ F.obj[i].kind \in {"global", "alloca"}) =>
              (i \in log.safe <=> InBoundsOfObject(i))

\* C7 witness: a guard was dropped at emission for an access at a positive
\* offset that ends exactly at the end of its object.
C7_Witness ==
  /\ pc = "emitted"
  /\ \E i \in log.safe :
       /\ F.obj[i].offset > 0
       /\ F.obj[i].size - F.obj[i].offset = F.bits[i] \div 8

\* The values the index can have at the access, given that comparison c
\* (index pred K) had the outcome c.branch on the way to it.
PredHolds(pred, v, K) ==
  CASE pred = "ult" -> v < K
    [] pred = "ule" -> v <= K
    [] pred = "ugt" -> v > K
    [] pred = "eq" -> v = K
IndexAtAccess(c) == {v \in Words : PredHolds(c.pred, v, c.K) = c.branch}

\* C8: a guard is dropped on account of isSafeAccessBoost only if a
\* comparison that dominates the access bounds the index at the access by a
\* constant that does not exceed the element count of the array.
C8_BoostOnlyWhenIndexBounded ==
  pc = "emitted" =>
    \A i \in log.safe :
      ~isSafeAccess(F, i) =>
        \E k \in DOMAIN F.cmps[i] :
          /\ F.cmps[i][k].dominates
          /\ F.cmps[i][k].constOther
          /\ \A v \in IndexAtAccess(F.cmps[i][k]) : v <= F.gep[i].numElements

\* The constant step of the recurrence that describes the address of site
\* i, if the expression has one.
RECURSIVE AffineStep(_)
AffineStep(Expr) ==
  CASE Expr.k = "AddRec" -> IF Expr.step.const THEN {Expr.step.val} ELSE {}
    [] Expr.k \in {"Truncate", "ZeroExtend", "SignExtend"} -> AffineStep(Expr.ops[1])
    [] Expr.k \in {"Add", "Mul", "UDiv", "SMax", "UMax"} ->
         UNION {AffineStep(Expr.ops[k]) : k \in DOMAIN Expr.ops}
    [] OTHER -> {}
ProbedSites == {log.loopGuards[k].site : k \in {k \in DOMAIN log.loopGuards : log.loopGuards[k].kind = "probe"}}

\* C9: a site is accepted by the monotonic sub-pass only if its address is
\* affine in the induction variable with a non-zero constant step of
\* magnitude at most 8; a larger step or no step determined is rejected.
C9_MonotonicOnlySmallConstantStep ==
  \A i \in ProbedSites :
    /\ AffineStep(F.scev[i]) # {}
    /\ \A v \in AffineStep(F.scev[i]) : v # 0 /\ Abs(v) <= MAX_STEP_SIZE

\* Sites of a loop that, in the CFG the function enters the pass with, has
\* no unique exit block.
InnermostLoops(i) ==
  {l \in DOMAIN Loops(F) :
     /\ F.blk[i] \in Loops(F)[l].blocks
     /\ \A k \in DOMAIN Loops(F) :
          F.blk[i] \in Loops(F)[k].blocks => Loops(F)[l].blocks \subseteq Loops(F)[k].blocks}
EdgesLeaving(l) ==
  {e \in Loops(F)[l].blocks \X Blocks :
     e[2] \in CFGs[F.shape].succ[e[1]] \ Loops(F)[l].blocks}
InLoopWithoutUniqueExit(i) ==
  \E l \in InnermostLoops(i) : Cardinality(EdgesLeaving(l)) # 1
LoopGuardedSites == {log.loopGuards[k].site : k \in DOMAIN log.loopGuards}
RemovedBeforeLoopPass == SeqRemoved \cup log.removed \cup log.mergedAway

\* C10 (as claimed): a site of a loop without a unique exit block gets no
\* loop guard, is not put in the optimized set, stays pending and later
\* receives the ordinary full guard.
C10_NoExitSiteGetsFullGuard ==
  \A i \in Sites(F) \ RemovedBeforeLoopPass :
    InLoopWithoutUniqueExit(i) =>
      /\ i \notin log.optimized \cup LoopGuardedSites
      /\ pc # "emitted" => i \in Pending
      /\ pc = "emitted" => i \in log.full

\* C10 (amended): a site of a loop without a unique exit block gets no loop
\* guard, is not put in the optimized set and stays pending; at emission it
\* is handed to instrumentMop, which gives it the ordinary full guard
\* unless the site passes the safe-access test of a global or stack object,
\* in which case it gets no guard at all.
C10_NoExitSiteLeftToEmission ==
  \A i \in Sites(F) \ RemovedBeforeLoopPass :
    InLoopWithoutUniqueExit(i) =>
      /\ i \notin log.optimized \cup LoopGuardedSites
      /\ i \in Pending
      /\ pc = "emitted" =>
           /\ i \in log.full \cup log.safe \cup log.intrinsic
           /\ i \in log.safe <=> (isInterestingMemoryAccess(F, i) /\ DroppedAsSafe(F, i))

\* C10 witness: the loop pass has run over a site of a loop with two exits
\* whose address has a step the monotonic handler would accept, and the
\* site has its full guard.
C10_Witness ==
  /\ pc = "emitted"
  /\ \E i \in log.full :
       /\ InLoopWithoutUniqueExit(i)
       /\ F.addrType[i] # "IBIO"
       /\ AffineStep(F.scev[i]) = {1}

RemovedOrMergedAway ==
  SeqRemoved \cup log.removed \cup log.mergedAway \cup log.optimized

\* C1: on every execution on which the original guard of a removed or
\* merged-away site B would have fired, some guard that survives in the
\* instrumented function fires, also when a call between the covering site
\* and B changes which addresses are valid.
C1_SurvivingGuardFires ==
  rt.st = "done" =>
    \A B \in RemovedOrMergedAway : B \in rt.would => rt.fired # {}

\* IBIO sites that dominate the unique exit block of their loop.
UniqueExitBlock(i) ==
  {e[2] : e \in UNION {EdgesLeaving(l) : l \in {l \in InnermostLoops(i) : Cardinality(EdgesLeaving(l)) = 1}}}
HoistedSites ==
  {i \in Sites(F) \ RemovedBeforeLoopPass :
     /\ F.addrType[i] = "IBIO"
     /\ \E x \in UniqueExitBlock(i) : DominatesBlock(F, i, x)}
GuardsOfSite(i) == {k \in DOMAIN log.loopGuards : log.loopGuards[k].site = i}

\* C6: for an IBIO site that dominates the unique exit block of its loop
\* exactly one guard is placed at the exit block and the site leaves the
\* pending list; over a complete execution that guard runs once and fires
\* if and only if the per-iteration guard would have fired on some iteration.
C6_HoistedGuardEquivalent ==
  \A i \in HoistedSites :
    /\ AfterOptimizations =>
         /\ i \in log.optimized /\ i \notin Pending
         /\ Cardinality(GuardsOfSite(i)) = 1
         /\ \A k \in GuardsOfSite(i) :
              log.loopGuards[k].kind = "exit" /\ log.loopGuards[k].exit \in UniqueExitBlock(i)
    /\ rt.st = "done" => rt.ran[i] = 1 /\ (i \in rt.fired <=> i \in rt.would)

\* The outcomes a site can end with, and the number of guards emitted for it.
OutcomeRemoved == SeqRemoved \cup log.removed
OutcomeMerged == log.mergedAway
OutcomeHoisted ==
  {log.loopGuards[k].site : k \in {k \in DOMAIN log.loopGuards : log.loopGuards[k].kind \in {"exit", "tracer"}}}
OutcomeProbed == ProbedSites
OutcomeSafe == log.safe \cup log.loopSafe
OutcomeFull == log.full
Outcomes ==
  <<OutcomeRemoved, OutcomeMerged, OutcomeHoisted, OutcomeProbed, OutcomeSafe, OutcomeFull>>
OutcomesOf(i) == {k \in DOMAIN Outcomes : i \in Outcomes[k]}
ClustersOf(i) ==
  {k \in DOMAIN log.merged : i \in {log.merged[k].key} \cup Range(log.merged[k].vec)}

\* C11: when emission has finished every load/store site has exactly one
\* outcome (removed, merged, hoisted, probe-guarded, dropped as safe, full
\* guard); a merged site belongs to one cluster, a loop-optimized site has
\* one loop guard, and no removed site is instrumented.
C11_ExactlyOneOutcome ==
  pc = "emitted" =>
    \A i \in {i \in Sites(F) : isInterestingMemoryAccess(F, i)} :
      /\ Cardinality(OutcomesOf(i)) = 1
      /\ Cardinality(ClustersOf(i)) = (IF i \in OutcomeMerged THEN 1 ELSE 0)
      /\ Cardinality(GuardsOfSite(i)) = (IF i \in OutcomeHoisted \cup OutcomeProbed THEN 1 ELSE 0)

\* The order in which ASAN_Optimizations and runOnFunction run the passes.
PassOrder ==
  {<<"postdom", "dom">>, <<"dom", "boost">>, <<"boost", "loop">>,
   <<"loop", "emit">>, <<"emit", "emitted">>}
StaticallySafe == {i \in Sites(F) : isInterestingMemoryAccess(F, i) /\ DroppedAsSafe(F, i)}

\* C12 as stated: safe-access elimination is the first sub-pass, so the list
\* the sequential-domination pass starts from holds no site that safe-access
\* elimination drops.
C12_SafeAccessEliminationFirst ==
  [][pc = "postdom" => Range(ToInstrument) \cap StaticallySafe = {}]_vars

\* C12: the passes run one after the other in the fixed order post-dominance
\* pass, dominance pass, neighbor passes, loop pass, emission; each pass
\* works on the list the previous one left, and sites are dropped as
\* statically safe only by the loop handlers and, last, at emission.
C12_FixedOrderSafeAccessLast ==
  [][/\ <<pc, pc'>> \in PassOrder
     /\ Range(ToInstrument') \subseteq Range(ToInstrument)
     /\ log'.postdom # log.postdom => pc = "postdom"
     /\ log'.dom # log.dom => pc = "dom"
     /\ (log'.removed # log.removed \/ log'.merged # log.merged) => pc = "boost"
     /\ (log'.optimized # log.optimized \/ log'.loopSafe # log.loopSafe) => pc = "loop"
     /\ (log'.safe # log.safe \/ log'.full # log.full) => pc = "emit"
     /\ Deleted(log'.dom) \cap Deleted(log'.postdom) = {}
     /\ log'.removed \cup log'.mergedAway \subseteq
          Sites(F) \ (Deleted(log'.postdom) \cup Deleted(log'.dom))
     /\ log'.optimized \cap (log'.removed \cup log'.mergedAway) = {}
     /\ log'.safe \cup log'.full \subseteq Range(ToInstrument)]_vars

\* C12 witness: emission dropped as statically safe a site that an earlier
\* pass had examined and used to remove another site.
C12_Witness ==
  /\ pc = "emitted"
  /\ \E p \in log.postdom \cup log.dom : p[1] \in log.safe

\* The sites a second run of the post-dominance pass, the dominance pass
\* and remove-neighbor removes from a list, on the CFG of the first run.
SecondRunRemoves(list) ==
  LET pd == sequentialExecuteOptimizationPostDomJ(F, list)
      l1 == KeepNonDeleted(list, Deleted(pd))
      d == sequentialExecuteOptimizationJ(F, l1)
      l2 == KeepNonDeleted(l1, Deleted(d))
      rm == rmNeighborChks(F, NoSplit, l2, InKeyOrder(KeysOf(F, l2)),
                           [deleted |-> {}, why |-> {}])
  IN Deleted(pd) \cup Deleted(d) \cup rm.deleted

\* The sites the three removing passes of the first run left, before
\* merge-neighbor and the loop pass took theirs.
SurvivorsOfRemoval ==
  KeepNonDeleted([i \in 1..F.n |-> i], SeqRemoved \cup log.removed)

\* C13: applying the post-dominance pass, the dominance pass and
\* remove-neighbor again removes no further site, neither from the sites
\* these three passes left nor from the list the whole first run left.
C13_SecondRunRemovesNothing ==
  pc \in {"loop", "emit", "emitted"} =>
    /\ SecondRunRemoves(SurvivorsOfRemoval) = {}
    /\ SecondRunRemoves(ToInstrument) = {}

\* C13 witness: the first run removed a site by sequential domination or by
\* remove-neighbor and left a group of at least three sites to the second.
C13_Witness ==
  /\ pc = "loop"
  /\ SeqRemoved \cup log.removed # {}
  /\ \E key \in KeysOf(F, SurvivorsOfRemoval) :
       Cardinality(GroupOf(F, SurvivorsOfRemoval, key)) >= 3

\* C14: every loop the engine took for the loop of a site is the innermost
\* loop that holds the site in the CFG as it is when the question is asked;
\* a site for which it took none is in no loop of that CFG. (Splitting a
\* block of a loop leaves both parts in the loop.)
C14_LoopMembershipIsCurrent ==
  \A r \in log.looked :
    IF r[2] = 0 THEN InnermostLoops(r[1]) = {} ELSE r[2] \in InnermostLoops(r[1])

\* The list the neighbor passes started from, and the candidate map
\* rmNeighborChks built for the group of a key.
ListBeforeBoost == KeepNonDeleted([i \in 1..F.n |-> i], SeqRemoved)
CandidatesOf(key) ==
  LET group == GroupOf(F, ListBeforeBoost, key)
  IN IF Cardinality(group) >= 3
     THEN preprocessPotentialRemoveInsts(F, NoSplit, group)
     ELSE preprocessPotentialRemoveInsts(F, NoSplit, {})

\* The number of witness pairs of the other candidates in which X occurs.
RECURSIVE CitationsIn(_, _, _)
CitationsIn(pot, S, X) ==
  IF S = {} THEN 0
  ELSE LET V == CHOOSE V \in S : TRUE
       IN Cardinality({p \in pot[V] : X = p[1] \/ X = p[2]})
            + CitationsIn(pot, S \ {V}, X)
Citations(pot, X) == CitationsIn(pot, DOMAIN pot \ {X}, X)

\* C15: the rank rankRemovableInsts gives to a candidate X is the number of
\* witness pairs of the other candidates of its group in which X occurs.
C15_RankCountsCitations ==
  pc = "loop" =>
    \A key \in KeysOf(F, ListBeforeBoost) :
      \A X \in DOMAIN CandidatesOf(key) :
        RankOf(CandidatesOf(key), X) = Citations(CandidatesOf(key), X)

\* Pairs <<i, j>> of must-aliasing sites of one block, i before j.
AliasingPairsOfOneBlock ==
  {p \in Sites(F) \X Sites(F) :
     /\ p[1] < p[2]
     /\ F.blk[p[1]] = F.blk[p[2]]
     /\ isInterestingMemoryAccess(F, p[1]) /\ isInterestingMemoryAccess(F, p[2])
     /\ isMustAlias(F, F.addr[p[1]], F.addr[p[2]])}

\* C16: of two must-aliasing sites of one block the sequential-domination
\* passes remove the later one, and never the earlier one on account of
\* the later one.
C16_LaterOfBlockRemoved ==
  pc \in {"boost", "loop", "emit", "emitted"} =>
    \A p \in AliasingPairsOfOneBlock :
      /\ p[2] \in SeqRemoved
      /\ <<p[2], p[1]>> \notin log.postdom \cup log.dom

\* The list the dominance pass started from and the groups it built.
ListBeforeDom == KeepNonDeleted([i \in 1..F.n |-> i], Deleted(log.postdom))
GroupsOfDom == AddrToInstructions(F, ListBeforeDom, EmptyMap)

\* C17: when the dominance pass has finished, every site it removed has in
\* its group a site that the pass did not remove and that dominates it.
C17_RemovedHasSurvivingDominator ==
  pc \in {"boost", "loop", "emit", "emitted"} =>
    \A B \in Deleted(log.dom) :
      \E k \in Addrs : \E A \in GroupsOfDom[k] :
        /\ B \in GroupsOfDom[k]
        /\ A \notin Deleted(log.dom)
        /\ InstDominates(F, A, B)

\* C17 witness: the dominance pass has finished and has removed a site on
\* account of a site that it removed afterwards.
C17_Witness ==
  /\ pc = "boost"
  /\ \E p \in log.dom : p[1] \in Deleted(log.dom)

\* The condition under which b is a candidate with witness pair (a, c),
\* read off the CFG and the GEP indices of the function.
SameBaseKeyGroup(a, b) ==
  /\ {a, b} \subseteq Range(ListBeforeBoost)
  /\ HasEntry(F, a) /\ HasEntry(F, b)
  /\ BaseKey(F, a) = BaseKey(F, b)
DominatesSite(a, b) ==
  IF F.blk[a] = F.blk[b] THEN a < b ELSE BlockDominates(F, F.blk[a], F.blk[b])
RedundantBetween(a, b, c) ==
  /\ a # b /\ b # c /\ a # c
  /\ SameBaseKeyGroup(a, b) /\ SameBaseKeyGroup(b, c)
  /\ F.gep[a].last.val < F.gep[b].last.val
  /\ F.gep[b].last.val < F.gep[c].last.val
  /\ F.gep[c].last.val - F.gep[a].last.val < RZ_SIZE
  /\ (DominatesSite(a, b) \/ BlockPostDominates(F, F.blk[a], F.blk[b]))
RecordedTriples ==
  UNION {LET pot == CandidatesOf(key)
         IN UNION {{<<p[1], b, p[2]>> : p \in pot[b]} : b \in DOMAIN pot}
         : key \in KeysOf(F, ListBeforeBoost)}
OffsetOrderedTriples ==
  {t \in Sites(F) \X Sites(F) \X Sites(F) :
     /\ SameBaseKeyGroup(t[1], t[2]) /\ SameBaseKeyGroup(t[2], t[3])
     /\ F.gep[t[1]].last.val < F.gep[t[2]].last.val
     /\ F.gep[t[2]].last.val < F.gep[t[3]].last.val}

\* C18: preprocessPotentialRemoveInsts records b with witness pair (a, c)
\* exactly when a, b, c are distinct sites of one BaseKey group with
\* offset(a) < offset(b) < offset(c), offset(c) - offset(a) < RZ_SIZE, and a
\* dominates b or the block of a post-dominates the block of b.
C18_CandidateIffRedundantBetween ==
  pc = "loop" =>
    RecordedTriples =
      {t \in Sites(F) \X Sites(F) \X Sites(F) : RedundantBetween(t[1], t[2], t[3])}

\* C18 witness: a group of which one triple is recorded and another triple
\* in offset order is not.
C18_Witness ==
  /\ pc = "loop"
  /\ RecordedTriples # {}
  /\ OffsetOrderedTriples \ RecordedTriples # {}

\* C19: every site remove-neighbor removed had a witness pair left when it
\* was removed, and when the pass has finished it still has a witness pair
\* of which neither member was removed.
C19_RemovedKeepsIntactWitnessPair ==
  pc = "loop" =>
    \A w \in log.why :
      /\ w[2] # {}
      /\ \E p \in CandidatesOf(BaseKey(F, w[1]))[w[1]] :
           p[1] \notin log.removed /\ p[2] \notin log.removed

\* The distance in bytes between the addresses of two sites of one group.
ByteDistance(a, b) ==
  Abs(F.gep[a].elemSize * F.gep[a].last.val - F.gep[b].elemSize * F.gep[b].last.val)

\* C20: the witnesses remove-neighbor accepts are fewer than RZ_SIZE bytes
\* apart, and the sites merge-neighbor puts in one cluster are fewer than
\* CHECK_RANGE bytes apart, whatever the size of the indexed element.
C20_OffsetsAreByteDistances ==
  pc = "loop" =>
    /\ \A w \in log.why : \A p \in w[2] : ByteDistance(p[1], p[2]) < RZ_SIZE
    /\ \A k \in DOMAIN log.merged :
         \A a, b \in {log.merged[k].key} \cup Range(log.merged[k].vec) :
           ByteDistance(a, b) < CHECK_RANGE

\* The sites of a merged cluster, key site included, and the distance
\* between its lowest and its highest offset.
ClusterSites(g) == {g.key} \cup Range(g.vec)
ClusterSpan(g) ==
  Max({Offset(F, i) : i \in ClusterSites(g)}) - Min({Offset(F, i) : i \in ClusterSites(g)})
WidthsCovering(d) == {w \in {8, 16, 32, 64} : w > d}

\* C21: the sites of every merged cluster, key site included, have offsets
\* pairwise within CHECK_RANGE, and the width of the range guard is the
\* smallest of 8, 16, 32, 64 whose span covers the distance between the
\* lowest and the highest offset of the cluster.
C21_WidthCoversClusterSpan ==
  pc = "loop" =>
    \A k \in DOMAIN log.merged :
      /\ ClusterSpan(log.merged[k]) < CHECK_RANGE
      /\ log.merged[k].width = Min(WidthsCovering(ClusterSpan(log.merged[k])))

\* The guard of cluster g stands at a site of the cluster that every other
\* site of the cluster dominates.
GuardAtLastSite(g) ==
  /\ g.at \in ClusterSites(g)
  /\ \A i \in ClusterSites(g) \ {g.at} : InstDominates(F, i, g.at)

\* The range probe of cluster g reads the address of a site whose offset is
\* the lowest of the cluster.
ProbeAtLowestSite(g) ==
  Offset(F, g.probe) = Min({Offset(F, i) : i \in ClusterSites(g)})

\* C22: the merged guard of a cluster is inserted at the site of the
\* cluster that executes last, a site dominated by every other site of the
\* cluster, key included, and its range probe reads the address of the
\* lowest-offset site among all sites of the cluster.
C22_GuardAtLastProbeAtLowest ==
  pc = "loop" =>
    \A k \in DOMAIN log.merged :
      GuardAtLastSite(log.merged[k]) /\ ProbeAtLowestSite(log.merged[k])

\* A cluster of three sites whose guard stands at a site other than the key
\* and whose probe reads a site other than the first one in program order.
C22_Witness ==
  /\ pc = "loop"
  /\ \E k \in DOMAIN log.merged :
       /\ Len(log.merged[k].vec) >= 2
       /\ log.merged[k].at # log.merged[k].key
       /\ log.merged[k].probe # log.merged[k].at
       /\ \E i \in ClusterSites(log.merged[k]) :
            InstDominates(F, i, log.merged[k].probe)

\* The groups merge-neighbor receives: the BaseKey groups of the pending
\* list without the sites remove-neighbor deleted.
MergeGroups ==
  {GroupOf(F, ListBeforeBoost, key) \ log.removed : key \in KeysOf(F, ListBeforeBoost)}

\* Two sites qualify for a merge: offsets within CHECK_RANGE, and either in
\* one block or one dominates the other whose block post-dominates it.
ControlRelated(a, b) ==
  \/ F.blk[a] = F.blk[b]
  \/ DominatesSite(a, b) /\ BlockPostDominates(F, F.blk[b], F.blk[a])
  \/ DominatesSite(b, a) /\ BlockPostDominates(F, F.blk[a], F.blk[b])
QualifyForMerge(a, b) ==
  /\ a # b
  /\ Offset(F, a) - Offset(F, b) < CHECK_RANGE
  /\ Offset(F, b) - Offset(F, a) < CHECK_RANGE
  /\ ControlRelated(a, b)
ClustersTouching(G) ==
  {k \in DOMAIN log.merged : ClusterSites(log.merged[k]) \cap G # {}}

\* A group all of whose sites qualify pairwise ends as one cluster with all
\* its sites removed from the pending list.
WholeGroupMerged ==
  \A G \in MergeGroups :
    (Cardinality(G) >= 2 /\ \A a, b \in G : a # b => QualifyForMerge(a, b))
      => /\ Cardinality(ClustersTouching(G)) = 1
         /\ \A k \in ClustersTouching(G) : ClusterSites(log.merged[k]) = G
         /\ G \subseteq log.mergedAway

\* Every qualifying pair of a group lies in one cluster.
EveryQualifyingPairMerged ==
  \A G \in MergeGroups : \A a, b \in G :
    QualifyForMerge(a, b) =>
      \E k \in DOMAIN log.merged : {a, b} \subseteq ClusterSites(log.merged[k])

\* C23: a BaseKey group of N >= 2 sites that are pairwise within
\* CHECK_RANGE and pairwise control-related is merged into exactly one
\* guard and all N sites leave the pending list; in a group where only some
\* pairs qualify, every qualifying pair is merged all the same.
C23_QualifyingSitesMerged ==
  pc = "loop" => WholeGroupMerged /\ EveryQualifyingPairMerged

\* C24: in the tracer variant of the invariant hoist the tracer is false
\* when the function is entered; at the exit of the loop it is true exactly
\* when the access has executed since the function was entered or the tracer
\* was last reset, whatever the value of the address; when it is true the
\* guard runs at the exit on the address of the most recent execution; and
\* for a nested loop the tracer is false again right after the exit check.
C24_TracerTracksExecution ==
  /\ (rt.st = "run" /\ rt.steps = 0) => \A i \in Sites(F) : rt.tracer[i] = 0
  /\ rt.exitObs.site # 0 =>
       /\ rt.exitObs.flag <=> rt.exitObs.executed
       /\ rt.exitObs.flag => rt.exitObs.ran /\ rt.exitObs.on = rt.exitObs.last
       /\ rt.exitObs.nested => rt.exitObs.after = 0

\* The sites the monotonic handler accepted with a known constant step, and
\* the magnitude of that step read off the SCEV of the address.
MonotonicSites == {i \in ProbedSites : Cardinality(AffineStep(F.scev[i])) = 1}
StepMagnitude(i) == Abs(CHOOSE v \in AffineStep(F.scev[i]) : TRUE)

\* C25: for a site the monotonic handler accepted, in every iteration the
\* full guard on the current address runs before the access exactly when
\* (address mod CHECK_RANGE_LOOP) < |step|; the site has left the pending
\* list and has no other guard inside the loop.
C25_GuardRunsIffProbeHolds ==
  /\ pc \in {"emit", "emitted"} =>
       \A i \in MonotonicSites : i \notin Range(ToInstrument) /\ i \notin log.full
  /\ (rt.iterObs.site # 0 /\ rt.iterObs.site \in MonotonicSites) =>
       /\ rt.iterObs.guard <=>
            (rt.iterObs.addr % CHECK_RANGE_LOOP) < StepMagnitude(rt.iterObs.site)
       /\ rt.iterObs.others = 0

\* An iteration in which the guard runs, after one in which it did not.
C25_Witness ==
  /\ rt.iterObs.site \in MonotonicSites
  /\ rt.iterObs.guard
  /\ rt.iterObs.prev # -1
  /\ (rt.iterObs.prev % CHECK_RANGE_LOOP) >= StepMagnitude(rt.iterObs.site)

\* The shadow granules (1 << Mapping.Scale = 8 bytes each) that an access of
\* the given number of bytes at address a touches.
ShadowGranularity == 8
Granules(a, bytes) == {(a + k) \div ShadowGranularity : k \in 0..(bytes - 1)}

\* C26: for a constant step s with 0 < |s| <= MAX_STEP_SIZE the probe
\* (address mod CHECK_RANGE_LOOP) < |s| is true, and the guard runs, in every
\* iteration whose access touches a shadow granule that the access of the
\* previous iteration did not touch, whatever the start address, the step
\* and the access size (iterations in which the address wraps around the
\* address space are left aside).
C26_ProbeHoldsOnEveryNewGranule ==
  (/\ rt.iterObs.site # 0
   /\ rt.iterObs.site \in MonotonicSites
   /\ StepMagnitude(rt.iterObs.site) \in 1..MAX_STEP_SIZE
   /\ rt.iterObs.prev # -1
   /\ Abs(rt.iterObs.addr - rt.iterObs.prev) = StepMagnitude(rt.iterObs.site)
   /\ Granules(rt.iterObs.addr, F.bits[rt.iterObs.site] \div 8)
        \ Granules(rt.iterObs.prev, F.bits[rt.iterObs.site] \div 8) # {})
    => rt.iterObs.guard

\* Execution at instruction level: the nodes are the instructions and, as
\* negative numbers, the entries of the blocks.
NodeSucc(fn, x) ==
  LET b == IF x < 0 THEN -x ELSE fn.blk[x]
      later == {j \in 1..fn.n : fn.blk[j] = b /\ (x < 0 \/ j > x)}
  IN IF later = {} THEN {-s : s \in Succ(fn, b)} ELSE {Min(later)}
RECURSIVE NodesReached(_, _, _)
NodesReached(fn, seen, avoid) ==
  LET next == seen \cup UNION {NodeSucc(fn, x) : x \in seen \ {avoid}}
  IN IF next = seen THEN seen ELSE NodesReached(fn, next, avoid)

\* T executes on a path from A to B, and A does not execute again between
\* T and B.
InvalidatesBetween(fn, A, T, B) ==
  /\ T \in NodesReached(fn, NodeSucc(fn, A), 0)
  /\ B \in NodesReached(fn, NodeSucc(fn, T), A)
CallsAndLifetimeEnds(fn) == {i \in 1..fn.n : fn.kind[i] # "access"}

\* C27: ConservativeCallIntrinsicCheck(A, B) answers true only if no call
\* and no lifetime-end marker executes on a path from A to B without A
\* executing again before B, and the set it consults holds every call and
\* every lifetime-end marker of the function.
C27_CheckTrueOnlyIfNothingInvalidates ==
  /\ pc \in {"check", "checked"} => CallsAndLifetimeEnds(F) \subseteq log.callIntrinsicSet
  /\ (pc = "checked" /\ log.result) =>
       \A T \in CallsAndLifetimeEnds(F) : ~InvalidatesBetween(F, log.InstStart, T, log.InstEnd)

\* Two sites have the same base pointer and the same leading indices.
SameBaseAndLeadingIndices(i, j) ==
  /\ F.gep[i].base = F.gep[j].base
  /\ F.gep[i].lead = F.gep[j].lead
AllIndicesConstant(i) ==
  /\ \A k \in DOMAIN F.gep[i].lead : F.gep[i].lead[k].const
  /\ F.gep[i].last.const

\* C28: two sites get the same BaseKey exactly when they have the same
\* base pointer and identical sequences of leading constant indices,
\* whatever the values of the indices; a site with a leading or last index
\* that is not constant gets no BaseKey and is neither removed nor merged
\* by the neighbor passes.
C28_BaseKeyIffSameBaseAndIndices ==
  pc \in {"loop", "emit", "emitted"} =>
    /\ \A i, j \in Sites(F) :
         (HasEntry(F, i) /\ HasEntry(F, j))
           => (BaseKey(F, i) = BaseKey(F, j) <=> SameBaseAndLeadingIndices(i, j))
    /\ \A i \in Sites(F) :
         ~AllIndicesConstant(i) =>
           ~HasEntry(F, i) /\ i \notin log.removed \cup log.mergedAway

\* The class getInitValueFromSCEV gives an expression, the operands of an
\* expression and its subexpressions.
ClassOf(Expr) == getInitValueFromSCEV(Expr, Unset).type
OperandsOf(Expr) ==
  IF Expr.k = "AddRec" THEN {Expr.start}
  ELSE IF Expr.k \in {"Add", "Mul", "UDiv", "SMax", "UMax", "Truncate", "ZeroExtend", "SignExtend"}
  THEN Range(Expr.ops) ELSE {}
RECURSIVE SubExprs(_)
SubExprs(Expr) == {Expr} \cup UNION {SubExprs(op) : op \in OperandsOf(Expr)}
\* The expressions MonotonicOptimizeHandler classified: those of the sites
\* of a loop with a unique exit block that are not IBIO.
ClassifiedExprs ==
  UNION {SubExprs(F.scev[i]) :
           i \in {i \in Sites(F) :
                    /\ \E x \in log.looked : x[1] = i /\ x[2] # 0
                    /\ loopOptimizationCategorise(F, i) # "IBIO"
                    /\ UniqueExitBlock(i) # {}}}

\* C29: getInitValueFromSCEV gives a composite expression (add, mul, udiv,
\* smax, umax) the class Unknown whenever one of its operands has the class
\* Unknown, and the class increasing or decreasing only if one of its
\* operands is affine with a known non-zero constant step; a cast has the
\* class of its operand; an affine expression whose start is Unknown or
\* whose step is zero or not constant is Unknown.
C29_ClassOfCompositeCastAffine ==
  pc \in {"emit", "emitted"} =>
    \A Expr \in ClassifiedExprs :
      /\ Expr.k \in {"Add", "Mul", "UDiv", "SMax", "UMax"} =>
           /\ (\E op \in Range(Expr.ops) : ClassOf(op) = "SEUnknown")
                => ClassOf(Expr) = "SEUnknown"
           /\ ClassOf(Expr) \in {"SEIncrease", "SEDecrease"}
                => \E op \in Range(Expr.ops) : AffineStep(op) \ {0} # {}
      /\ Expr.k \in {"Truncate", "ZeroExtend", "SignExtend"} =>
           ClassOf(Expr) = ClassOf(Expr.ops[1])
      /\ (Expr.k = "AddRec" /\ (ClassOf(Expr.start) = "SEUnknown" \/ ~Expr.step.const
                                  \/ Expr.step.val = 0)) =>
           ClassOf(Expr) = "SEUnknown"

RECURSIVE IsSubsequence(_, _)
IsSubsequence(s, t) ==
  IF s = <<>> THEN TRUE
  ELSE IF t = <<>> THEN FALSE
  ELSE IF Head(s) = Head(t) THEN IsSubsequence(Tail(s), Tail(t))
  ELSE IsSubsequence(s, Tail(t))

\* C30: every sub-pass (post-dominance, dominance, neighbor, loop) leaves
\* the pending list a subsequence of the list it received: nothing is
\* added, duplicated or reordered; and every sub-pass keeps the memory
\* intrinsics of the list.
C30_PendingListOnlyShrinks ==
  [][/\ IsSubsequence(ToInstrument', ToInstrument)
     /\ \A i \in Range(ToInstrument) : F.mem[i] => i \in Range(ToInstrument')]_vars

\* All four sub-passes have run, a memory intrinsic is still pending next
\* to another site, and some site was removed.
C30_Witness ==
  /\ pc = "emit"
  /\ Len(ToInstrument) >= 2
  /\ Len(ToInstrument) < F.n
  /\ \E i \in Range(ToInstrument) : F.mem[i]

====
